---- MODULE Spec2Model ----
(***************************************************************************)
(* A model of nova/compute/provider_tree.py: the forest of resource        *)
(* providers (_Provider), the tree-wide lock and the public operations of  *)
(* ProviderTree, called by several threads.                                *)
(*                                                                         *)
(* A provider is a record; the children dict of a provider (keyed by the   *)
(* child's uuid, in insertion order) is a sequence of providers with       *)
(* pairwise different uuids, and the roots list is a sequence of           *)
(* providers.  A provider object is identified by its path from the roots  *)
(* list: <<i, j>> is the j-th child of the i-th root.                      *)
(***************************************************************************)
EXTENDS Integers, Sequences, FiniteSets, TLC

\* Python's None.
None == "None"

\* Bounds of the model.
MaxNodes == 3      \* new_root / new_child are called on trees below this size
MaxPre == 2        \* populate_from_iterable is called on trees up to this size
MaxBatch == 2      \* length of the iterable handed to populate_from_iterable
MaxCns == 2        \* length of the compute node list handed to the constructor
NumThreads == 2

\* The values the callers draw their arguments from.  "a" is both a uuid and
\* a name: nothing in the code keeps the two kinds of key apart.
UUIDs == {"a", "b", "c"}
Names == {"a", "n"}
Keys == UUIDs \cup Names
\* A generation is only stored and compared for equality (_update_generation):
\* the model writes the numbers as strings, so that None is one of the values.
Gens == {None, "1"}
\* The names in the provider dicts of populate_from_iterable.
DictNames == {"n"}
Threads == 1..NumThreads

\* The attributes the callers hand over.  An inventory maps resource classes
\* to records and a record maps field names to values; a record may lack any
\* of the fields.  Traits and aggregates come as iterables, which may repeat
\* an element.
MaxList == 2       \* length of an iterable of traits or of aggregates
ResourceClasses == {"VCPU"}
Fields == {"total", "reserved"}
Values == {1, 2}
PartialFunctions(D, R) == UNION {[S -> R] : S \in SUBSET D}
InventoryRecords == PartialFunctions(Fields, Values)
Inventories == PartialFunctions(ResourceClasses, InventoryRecords)
TraitNames == {"T1", "T2"}
TraitLists == UNION {[1..n -> TraitNames] : n \in 0..MaxList}
AggregateUuids == {"A"}
AggregateLists == UNION {[1..n -> AggregateUuids] : n \in 0..MaxList}
\* The generations handed to the update_* operations.
UpdateGens == {None, "1", "2"}

VARIABLES
    roots,   \* ProviderTree.roots
    lock,    \* ProviderTree.lock: the set of threads holding it
    pc,      \* per thread: "idle" (in no operation), "cs" (inside the with
             \* block of an operation), "loop" (populate_from_iterable, at the
             \* head of its while loop), "done" (populate_from_iterable, at
             \* the end of its with block)
    call     \* the populate_from_iterable call in progress: its argument
             \* (batch), the roots when it took the lock (pre), to_add_by_uuid
             \* (to_add) and the error it is raising (raised); under SpecAttr,
             \* the last call made

vars == <<roots, lock, pc, call>>

----------------------------------------------------------------------------
\* _Provider

EmptyDict == <<>>

_Provider(name, uuid, generation, parent_uuid) ==
    [uuid |-> uuid, name |-> name, generation |-> generation,
     parent_uuid |-> parent_uuid, children |-> <<>>,
     inventory |-> EmptyDict, traits |-> {}, aggregates |-> {}]

from_dict(pd) == _Provider(pd.name, pd.uuid, pd.generation, pd.parent_provider_uuid)

RemoveIdx(seq, i) == SubSeq(seq, 1, i - 1) \o SubSeq(seq, i + 1, Len(seq))

\* get_provider_uuids, were it to stop at the children.
P_get_provider_uuids_children(p) ==
    {p.uuid} \cup {p.children[i].uuid : i \in DOMAIN p.children}

\* _Provider.get_provider_uuids: the uuids of a provider and of all its
\* descendants.
RECURSIVE P_get_provider_uuids(_)
P_get_provider_uuids(p) ==
    {p.uuid} \cup UNION {P_get_provider_uuids(p.children[i]) : i \in DOMAIN p.children}

\* _Provider.find: <<>> for None, else <<path>>, the path of the provider
\* found relative to p (<<>> is p itself).
RECURSIVE P_find(_, _)
RECURSIVE P_find_loop(_, _, _)
\* find, were the provider itself compared with the key by its uuid only.
P_find_self_by_uuid(p, search) ==
    IF p.uuid = search THEN << <<>> >>
    ELSE IF \E i \in DOMAIN p.children : p.children[i].uuid = search
         THEN << <<CHOOSE i \in DOMAIN p.children : p.children[i].uuid = search>> >>
    ELSE P_find_loop(p, search, 1)

\* find, were the children not looked up by uuid before the loop.
P_find_depth_first(p, search) ==
    IF p.name = search \/ p.uuid = search THEN << <<>> >>
    ELSE P_find_loop(p, search, 1)

P_find(p, search) ==
    IF p.name = search \/ p.uuid = search THEN << <<>> >>
    ELSE IF \E i \in DOMAIN p.children : p.children[i].uuid = search
         THEN << <<CHOOSE i \in DOMAIN p.children : p.children[i].uuid = search>> >>
    ELSE P_find_loop(p, search, 1)

\* The loop of find, were it to look at the names of the children only and
\* not to descend into them.
RECURSIVE P_find_loop_children_only(_, _, _)
P_find_loop_children_only(p, search, i) ==
    IF i > Len(p.children) THEN <<>>
    ELSE IF p.children[i].name = search THEN << <<i>> >>
    ELSE P_find_loop_children_only(p, search, i + 1)

P_find_loop(p, search, i) ==
    IF i > Len(p.children) THEN <<>>
    ELSE IF p.children[i].name = search THEN << <<i>> >>
    ELSE LET subchild == P_find(p.children[i], search) IN
         IF subchild # <<>> THEN << <<i>> \o subchild[1] >>
         ELSE P_find_loop(p, search, i + 1)

\* add_child, were a provider that takes the place of a child to take over
\* the children of that child.
add_child_keeping_children(p, provider) ==
    IF \E i \in DOMAIN p.children : p.children[i].uuid = provider.uuid
    THEN [p EXCEPT !.children =
            [i \in DOMAIN p.children |->
                IF p.children[i].uuid = provider.uuid
                THEN [provider EXCEPT !.children = p.children[i].children]
                ELSE p.children[i]]]
    ELSE [p EXCEPT !.children = Append(p.children, provider)]

\* self.children[provider.uuid] = provider: a key already in the dict keeps
\* its place and gets the new value.
add_child(p, provider) ==
    IF \E i \in DOMAIN p.children : p.children[i].uuid = provider.uuid
    THEN [p EXCEPT !.children =
            [i \in DOMAIN p.children |->
                IF p.children[i].uuid = provider.uuid THEN provider ELSE p.children[i]]]
    ELSE [p EXCEPT !.children = Append(p.children, provider)]

\* del self.children[provider.uuid] when the key is there.
remove_child(p, provider) ==
    IF \E i \in DOMAIN p.children : p.children[i].uuid = provider.uuid
    THEN [p EXCEPT !.children =
            RemoveIdx(p.children, CHOOSE i \in DOMAIN p.children : p.children[i].uuid = provider.uuid)]
    ELSE p

\* set(new): the elements of an iterable, here a sequence.
set(new) == {new[i] : i \in DOMAIN new}

has_inventory(p) == p.inventory # EmptyDict

\* has_inventory_changed, were a field that the new record lacks to count as
\* a change.
has_inventory_changed_missing_counts(p, new) ==
    LET cur == p.inventory IN
    IF DOMAIN cur # DOMAIN new THEN TRUE
    ELSE \E key \in DOMAIN cur :
            \E rec_key \in DOMAIN cur[key] :
                \/ rec_key \notin DOMAIN new[key]
                \/ new[key][rec_key] # cur[key][rec_key]

\* An inventory is a function from resource classes to records, a record a
\* function from field names to values.  The loops over cur.items() and
\* cur_rec.items() return True at the first difference they meet.
has_inventory_changed(p, new) ==
    LET cur == p.inventory IN
    IF DOMAIN cur # DOMAIN new THEN TRUE
    ELSE \E key \in DOMAIN cur :
            \E rec_key \in DOMAIN cur[key] :
                /\ rec_key \in DOMAIN new[key]
                /\ new[key][rec_key] # cur[key][rec_key]

\* _update_generation, were a generation only set where there is none yet.
_update_generation_once(p, generation) ==
    IF generation # None /\ p.generation = None
    THEN [p EXCEPT !.generation = generation]
    ELSE p

_update_generation(p, generation) ==
    IF generation # None /\ generation # p.generation
    THEN [p EXCEPT !.generation = generation]
    ELSE p

\* update_inventory, were the new inventory stored whether it has changed or
\* not.
P_update_inventory_stores_always(p, inventory, generation) ==
    LET q == _update_generation(p, generation) IN
    [ret |-> has_inventory_changed(q, inventory), p |-> [q EXCEPT !.inventory = inventory]]

\* update_inventory, were the inventory left as it is and only the change
\* reported.
P_update_inventory_stores_never(p, inventory, generation) ==
    LET q == _update_generation(p, generation) IN
    [ret |-> has_inventory_changed(q, inventory), p |-> q]

\* _Provider.update_inventory: [ret, p], the value returned and the provider
\* afterwards.
P_update_inventory(p, inventory, generation) ==
    LET q == _update_generation(p, generation) IN
    IF has_inventory_changed(q, inventory)
    THEN [ret |-> TRUE, p |-> [q EXCEPT !.inventory = inventory]]
    ELSE [ret |-> FALSE, p |-> q]

\* have_traits_changed, were the iterable compared by its length.
have_traits_changed_by_length(p, new) ==
    Len(new) # Cardinality(p.traits) \/ set(new) # p.traits

have_traits_changed(p, new) == set(new) # p.traits

\* _Provider.update_traits: [ret, p].
P_update_traits(p, new, generation) ==
    LET q == _update_generation(p, generation) IN
    IF have_traits_changed(q, new)
    THEN [ret |-> TRUE, p |-> [q EXCEPT !.traits = set(new)]]
    ELSE [ret |-> FALSE, p |-> q]

\* has_traits, were one of the traits enough.
has_traits_any(p, traits) == set(traits) \cap p.traits # {}

has_traits(p, traits) == ~ (set(traits) \ p.traits # {})

have_aggregates_changed(p, new) == set(new) # p.aggregates

\* update_aggregates, were the new set stored as the traits.
P_update_aggregates_into_traits(p, new, generation) ==
    LET q == _update_generation(p, generation) IN
    IF have_aggregates_changed(q, new)
    THEN [ret |-> TRUE, p |-> [q EXCEPT !.traits = set(new)]]
    ELSE [ret |-> FALSE, p |-> q]

\* _Provider.update_aggregates: [ret, p].
P_update_aggregates(p, new, generation) ==
    LET q == _update_generation(p, generation) IN
    IF have_aggregates_changed(q, new)
    THEN [ret |-> TRUE, p |-> [q EXCEPT !.aggregates = set(new)]]
    ELSE [ret |-> FALSE, p |-> q]

in_aggregates(p, aggregates) == ~ (set(aggregates) \ p.aggregates # {})

----------------------------------------------------------------------------
\* Providers by path.

RECURSIVE NodeAt(_, _)
NodeAt(seq, path) ==
    IF Len(path) = 1 THEN seq[path[1]]
    ELSE NodeAt(seq[path[1]].children, Tail(path))

RECURSIVE ReplaceAt(_, _, _)
ReplaceAt(seq, path, new) ==
    IF Len(path) = 1 THEN [seq EXCEPT ![path[1]] = new]
    ELSE [seq EXCEPT ![path[1]] =
            [@ EXCEPT !.children = ReplaceAt(seq[path[1]].children, Tail(path), new)]]

\* All paths of the forest.
RECURSIVE PathsOf(_)
PathsOf(seq) ==
    UNION {{<<i>>} \cup {<<i>> \o q : q \in PathsOf(seq[i].children)} : i \in DOMAIN seq}

NodeCount(rts) == Cardinality(PathsOf(rts))

\* The uuids in the forest (the loop of get_provider_uuids over the roots).
AllUuids(rts) == UNION {P_get_provider_uuids(rts[i]) : i \in DOMAIN rts}

----------------------------------------------------------------------------
\* ProviderTree, under the lock.  An operation that can raise gives a record
\* [raised, roots]: the error (None when it returns) and the roots afterwards;
\* with a field ret, the value returned, where the properties speak of it.

RECURSIVE find_from(_, _, _)
find_from(rts, name_or_uuid, i) ==
    IF i > Len(rts) THEN <<>>
    ELSE LET found == P_find(rts[i], name_or_uuid) IN
         IF found # <<>> THEN << <<i>> \o found[1] >>
         ELSE find_from(rts, name_or_uuid, i + 1)

\* _find_with_lock, were it to give up after the first root.
_find_in_first_root(rts, name_or_uuid) ==
    IF rts = <<>> THEN <<>> ELSE find_from(<<rts[1]>>, name_or_uuid, 1)

\* _find_with_lock: <<path>>, or <<>> when it raises the not-found error.
_find_with_lock(rts, name_or_uuid) == find_from(rts, name_or_uuid, 1)

_remove_with_lock(rts, name_or_uuid) ==
    LET f == _find_with_lock(rts, name_or_uuid) IN
    IF f = <<>> THEN [raised |-> "NotFound", roots |-> rts]
    ELSE LET found == NodeAt(rts, f[1]) IN
         \* if found.parent_uuid: an identifier is not the empty string
         IF found.parent_uuid # None
         THEN LET pf == _find_with_lock(rts, found.parent_uuid) IN
              IF pf = <<>> THEN [raised |-> "NotFound", roots |-> rts]
              ELSE [raised |-> None,
                    roots |-> ReplaceAt(rts, pf[1], remove_child(NodeAt(rts, pf[1]), found))]
         ELSE \* self.roots.remove(found): list.remove raises ValueError when
              \* found is not an element of the list
              IF Len(f[1]) = 1
              THEN [raised |-> None, roots |-> RemoveIdx(rts, f[1][1])]
              ELSE [raised |-> "ValueError", roots |-> rts]

new_root(rts, name, uuid, generation) ==
    IF _find_with_lock(rts, uuid) # <<>>
    THEN [raised |-> "AlreadyExists", roots |-> rts, ret |-> None]
    ELSE [raised |-> None, roots |-> Append(rts, _Provider(name, uuid, generation, None)),
          ret |-> uuid]

new_child(rts, name, parent, uuid, generation) ==
    LET f == _find_with_lock(rts, parent) IN
    IF f = <<>> THEN [raised |-> "NotFound", roots |-> rts, ret |-> None]
    ELSE LET parent_node == NodeAt(rts, f[1])
             p == _Provider(name, uuid, generation, parent_node.uuid)
         IN  [raised |-> None, roots |-> ReplaceAt(rts, f[1], add_child(parent_node, p)),
              ret |-> p.uuid]

\* What an operation gives when _find_with_lock raises.
NotFound(rts) == [raised |-> "NotFound", roots |-> rts, ret |-> None]

\* A query on the provider found: the tree is as before.
Returns(rts, value) == [raised |-> None, roots |-> rts, ret |-> value]

\* An update of the provider found, r being [ret, p] of the _Provider method.
Updates(rts, path, r) == [raised |-> None, roots |-> ReplaceAt(rts, path, r.p), ret |-> r.ret]

\* _Provider.data: the ProviderData tuple, its inventory, traits and
\* aggregates being copies (values, here).
P_data(p) ==
    [uuid |-> p.uuid, name |-> p.name, generation |-> p.generation,
     parent_uuid |-> p.parent_uuid, inventory |-> p.inventory,
     traits |-> p.traits, aggregates |-> p.aggregates]

data(rts, name_or_uuid) ==
    LET f == _find_with_lock(rts, name_or_uuid) IN
    IF f = <<>> THEN NotFound(rts) ELSE Returns(rts, P_data(NodeAt(rts, f[1])))

\* try: self._find_with_lock(name_or_uuid); return True
\* except ValueError: return False
exists(rts, name_or_uuid) ==
    Returns(rts, _find_with_lock(rts, name_or_uuid) # <<>>)

\* get_provider_uuids(name_or_uuid), name_or_uuid not None.
get_provider_uuids(rts, name_or_uuid) ==
    LET f == _find_with_lock(rts, name_or_uuid) IN
    IF f = <<>> THEN NotFound(rts)
    ELSE Returns(rts, P_get_provider_uuids(NodeAt(rts, f[1])))

T_has_inventory(rts, name_or_uuid) ==
    LET f == _find_with_lock(rts, name_or_uuid) IN
    IF f = <<>> THEN NotFound(rts) ELSE Returns(rts, has_inventory(NodeAt(rts, f[1])))

T_has_inventory_changed(rts, name_or_uuid, inventory) ==
    LET f == _find_with_lock(rts, name_or_uuid) IN
    IF f = <<>> THEN NotFound(rts)
    ELSE Returns(rts, has_inventory_changed(NodeAt(rts, f[1]), inventory))

update_inventory(rts, name_or_uuid, inventory, generation) ==
    LET f == _find_with_lock(rts, name_or_uuid) IN
    IF f = <<>> THEN NotFound(rts)
    ELSE Updates(rts, f[1], P_update_inventory(NodeAt(rts, f[1]), inventory, generation))

T_has_traits(rts, name_or_uuid, traits) ==
    LET f == _find_with_lock(rts, name_or_uuid) IN
    IF f = <<>> THEN NotFound(rts) ELSE Returns(rts, has_traits(NodeAt(rts, f[1]), traits))

\* have_traits_changed, were it to store the traits it compares.
T_have_traits_changed_storing(rts, name_or_uuid, traits) ==
    LET f == _find_with_lock(rts, name_or_uuid) IN
    IF f = <<>> THEN NotFound(rts)
    ELSE Updates(rts, f[1], P_update_traits(NodeAt(rts, f[1]), traits, None))

T_have_traits_changed(rts, name_or_uuid, traits) ==
    LET f == _find_with_lock(rts, name_or_uuid) IN
    IF f = <<>> THEN NotFound(rts)
    ELSE Returns(rts, have_traits_changed(NodeAt(rts, f[1]), traits))

update_traits(rts, name_or_uuid, traits, generation) ==
    LET f == _find_with_lock(rts, name_or_uuid) IN
    IF f = <<>> THEN NotFound(rts)
    ELSE Updates(rts, f[1], P_update_traits(NodeAt(rts, f[1]), traits, generation))

T_in_aggregates(rts, name_or_uuid, aggregates) ==
    LET f == _find_with_lock(rts, name_or_uuid) IN
    IF f = <<>> THEN NotFound(rts)
    ELSE Returns(rts, in_aggregates(NodeAt(rts, f[1]), aggregates))

T_have_aggregates_changed(rts, name_or_uuid, aggregates) ==
    LET f == _find_with_lock(rts, name_or_uuid) IN
    IF f = <<>> THEN NotFound(rts)
    ELSE Returns(rts, have_aggregates_changed(NodeAt(rts, f[1]), aggregates))

update_aggregates(rts, name_or_uuid, aggregates, generation) ==
    LET f == _find_with_lock(rts, name_or_uuid) IN
    IF f = <<>> THEN NotFound(rts)
    ELSE Updates(rts, f[1], P_update_aggregates(NodeAt(rts, f[1]), aggregates, generation))

\* A dict keyed by uuid, as the sequence of its values in insertion order.
DictKeys(d) == {d[i].uuid : i \in DOMAIN d}

\* d[pd['uuid']] = pd: a key already in the dict keeps its place.
DictPut(d, pd) ==
    IF pd.uuid \in DictKeys(d)
    THEN [i \in DOMAIN d |-> IF d[i].uuid = pd.uuid THEN pd ELSE d[i]]
    ELSE Append(d, pd)

\* to_add_by_uuid = {pd['uuid']: pd for pd in provider_dicts}
RECURSIVE DictFrom(_, _)
DictFrom(d, provider_dicts) ==
    IF provider_dicts = <<>> THEN d
    ELSE DictFrom(DictPut(d, Head(provider_dicts)), Tail(provider_dicts))

to_add_by_uuid(provider_dicts) == DictFrom(<<>>, provider_dicts)

\* missing_parents, were the identifiers already in the tree left out of
\* all_parents.
missing_parents_without_tree(rts, to_add) ==
    LET all_parents == {None} \cup DictKeys(to_add) IN
    {to_add[i].parent_provider_uuid : i \in DOMAIN to_add} \ all_parents

\* The sanity check for orphans: the parents it reports missing.
missing_parents(rts, to_add) ==
    LET all_parents == {None} \cup DictKeys(to_add) \cup AllUuids(rts) IN
    {to_add[i].parent_provider_uuid : i \in DOMAIN to_add} \ all_parents

\* The for loop of one pass: the places of the entries whose parent is not a
\* key of to_add; the loop breaks at the first of them.
Suitable(to_add) ==
    {i \in DOMAIN to_add : to_add[i].parent_provider_uuid \notin DictKeys(to_add)}

\* populate_pass, were the entry not popped from to_add_by_uuid at the end
\* of the pass.
populate_pass_keeping_entry(rts, to_add) ==
    IF Suitable(to_add) = {}
    THEN [raised |-> "InternalInvariant", roots |-> rts, to_add |-> to_add]
    ELSE LET i == CHOOSE k \in Suitable(to_add) : \A m \in Suitable(to_add) : k <= m
             pd == to_add[i]
             removed == _remove_with_lock(rts, pd.uuid).roots
             provider == from_dict(pd)
         IN  IF pd.parent_provider_uuid = None
             THEN [raised |-> None, roots |-> Append(removed, provider), to_add |-> to_add]
             ELSE LET f == _find_with_lock(removed, pd.parent_provider_uuid) IN
                  IF f = <<>>
                  THEN [raised |-> "NotFound", roots |-> removed, to_add |-> to_add]
                  ELSE [raised |-> None,
                        roots |-> ReplaceAt(removed, f[1],
                                            add_child(NodeAt(removed, f[1]), provider)),
                        to_add |-> to_add]

\* One pass of the while loop: [raised, roots, to_add] afterwards.
populate_pass(rts, to_add) ==
    IF Suitable(to_add) = {}
    THEN [raised |-> "InternalInvariant", roots |-> rts, to_add |-> to_add]
    ELSE LET i == CHOOSE k \in Suitable(to_add) : \A m \in Suitable(to_add) : k <= m
             pd == to_add[i]
             \* try: self._remove_with_lock(uuid) except ValueError: pass
             removed == _remove_with_lock(rts, pd.uuid).roots
             provider == from_dict(pd)
         IN  IF pd.parent_provider_uuid = None
             THEN [raised |-> None, roots |-> Append(removed, provider),
                   to_add |-> RemoveIdx(to_add, i)]
             ELSE LET f == _find_with_lock(removed, pd.parent_provider_uuid) IN
                  IF f = <<>>
                  THEN [raised |-> "NotFound", roots |-> removed, to_add |-> to_add]
                  ELSE [raised |-> None,
                        roots |-> ReplaceAt(removed, f[1],
                                            add_child(NodeAt(removed, f[1]), provider)),
                        to_add |-> RemoveIdx(to_add, i)]

\* The while loop, run to its end: [raised, roots, to_add].
RECURSIVE populate_loop(_, _)
populate_loop(rts, to_add) ==
    IF to_add = <<>> THEN [raised |-> None, roots |-> rts, to_add |-> to_add]
    ELSE LET r == populate_pass(rts, to_add) IN
         IF r.raised # None THEN r ELSE populate_loop(r.roots, r.to_add)

\* populate_from_iterable as a whole: [raised, roots].
populate_from_iterable(rts, provider_dicts) ==
    IF provider_dicts = <<>> THEN [raised |-> None, roots |-> rts]
    ELSE LET to_add == to_add_by_uuid(provider_dicts) IN
         IF missing_parents(rts, to_add) # {}
         THEN [raised |-> "OrphanInput", roots |-> rts]
         ELSE LET r == populate_loop(rts, to_add) IN
              [raised |-> r.raised, roots |-> r.roots]


----------------------------------------------------------------------------
\* The lock and the threads.

NoCall == [batch |-> <<>>, pre |-> <<>>, to_add |-> <<>>, raised |-> None]

\* Acquire, were the lock taken without waiting for it to be free.
AcquireWithoutWaiting(t) == lock' = lock \cup {t}

\* with self.lock: entering blocks until the lock is free.
Acquire(t) == lock = {} /\ lock' = {t}

\* Release, were the lock given back after the body (acquire, body, release
\* in sequence) and so kept when the body raises.
ReleaseUnlessRaised(t) == lock' = IF call.raised = None THEN lock \ {t} ELSE lock

\* Leaving the with block, by return or by exception.
Release(t) == lock' = lock \ {t}

\* ProviderTree.__init__: the compute nodes become roots, in order.
RECURSIVE InitRoots(_)
InitRoots(cns) ==
    IF cns = <<>> THEN <<>>
    ELSE <<_Provider(cns[1].hypervisor_hostname, cns[1].uuid, None, None)>> \o InitRoots(Tail(cns))

ComputeNodes == [hypervisor_hostname : Names, uuid : UUIDs]

\* Compute node lists: the nodes of a list have different uuids.
ComputeNodeLists ==
    {cns \in UNION {[1..n -> ComputeNodes] : n \in 0..MaxCns} :
        \A i, j \in DOMAIN cns : i # j => cns[i].uuid # cns[j].uuid}

Init ==
    /\ roots \in {InitRoots(cns) : cns \in ComputeNodeLists}
    /\ lock = {}
    /\ pc = [t \in Threads |-> "idle"]
    /\ call = NoCall

\* A thread enters the with block of a public operation other than
\* populate_from_iterable.
Enter(t) ==
    /\ pc[t] = "idle"
    /\ Acquire(t)
    /\ pc' = [pc EXCEPT ![t] = "cs"]
    /\ UNCHANGED <<roots, call>>

\* The body of an operation, then the end of its with block.
Finish(t, res) ==
    /\ roots' = res.roots
    /\ Release(t)
    /\ pc' = [pc EXCEPT ![t] = "idle"]
    /\ UNCHANGED call

NewRoot(t) ==
    /\ pc[t] = "cs"
    /\ NodeCount(roots) < MaxNodes
    /\ \E name \in Names, uuid \in UUIDs, generation \in Gens :
          Finish(t, new_root(roots, name, uuid, generation))

\* uuid None: _Provider.__init__ generates a uuid, one no provider has.
NewChild(t) ==
    /\ pc[t] = "cs"
    /\ NodeCount(roots) < MaxNodes
    /\ \E name \in Names, parent \in Keys, uuid \in UUIDs \cup {None}, generation \in Gens :
          \E u \in (IF uuid = None THEN UUIDs \ AllUuids(roots) ELSE {uuid}) :
              Finish(t, new_child(roots, name, parent, u, generation))

Remove(t) ==
    /\ pc[t] = "cs"
    /\ \E name_or_uuid \in Keys : Finish(t, _remove_with_lock(roots, name_or_uuid))

\* data, exists, get_provider_uuids and the has_* / *_changed queries: the
\* body reads the tree and the with block ends.
Read(t) ==
    /\ pc[t] = "cs"
    /\ Release(t)
    /\ pc' = [pc EXCEPT ![t] = "idle"]
    /\ UNCHANGED <<roots, call>>

\* The provider dicts handed to populate_from_iterable.
ProviderDicts ==
    [uuid : UUIDs, name : DictNames, generation : Gens,
     parent_provider_uuid : UUIDs \cup {None}]

Iterables == UNION {[1..n -> ProviderDicts] : n \in 1..MaxBatch}

\* populate_from_iterable with nothing to add returns before the lock.
PopulateEmpty(t) ==
    /\ pc[t] = "idle"
    /\ UNCHANGED vars

\* populate_from_iterable: to_add_by_uuid is built, the lock taken and the
\* sanity check for orphans made.
PopulateCall(t) ==
    /\ pc[t] = "idle"
    /\ NodeCount(roots) <= MaxPre
    /\ Acquire(t)
    /\ \E provider_dicts \in Iterables :
          LET to_add == to_add_by_uuid(provider_dicts)
              orphan == missing_parents(roots, to_add) # {}
          IN  /\ call' = [batch |-> provider_dicts, pre |-> roots, to_add |-> to_add,
                          raised |-> IF orphan THEN "OrphanInput" ELSE None]
              /\ pc' = [pc EXCEPT ![t] = IF orphan THEN "done" ELSE "loop"]
    /\ UNCHANGED roots

\* PopulateLoop, were the loop to call the public remove, which takes the
\* lock, in the place of _remove_with_lock.
PopulateLoopTakingLock(t) ==
    /\ pc[t] = "loop"
    /\ Acquire(t)
    /\ \E r \in {populate_pass(roots, call.to_add)} :
          /\ roots' = r.roots
          /\ call' = [call EXCEPT !.to_add = r.to_add, !.raised = r.raised]
          /\ pc' = [pc EXCEPT ![t] =
                      IF r.raised # None \/ r.to_add = <<>> THEN "done" ELSE "loop"]

\* One pass of the while loop, to_add_by_uuid being non-empty.
PopulateLoop(t) ==
    /\ pc[t] = "loop"
    /\ \E r \in {populate_pass(roots, call.to_add)} :
          /\ roots' = r.roots
          /\ call' = [call EXCEPT !.to_add = r.to_add, !.raised = r.raised]
          /\ pc' = [pc EXCEPT ![t] =
                      IF r.raised # None \/ r.to_add = <<>> THEN "done" ELSE "loop"]
    /\ UNCHANGED lock

\* populate_from_iterable returns or raises: the with block ends.
PopulateReturn(t) ==
    /\ pc[t] = "done"
    /\ Release(t)
    /\ pc' = [pc EXCEPT ![t] = "idle"]
    /\ call' = NoCall
    /\ UNCHANGED roots

Next ==
    \E t \in Threads :
        \/ Enter(t)
        \/ NewRoot(t)
        \/ NewChild(t)
        \/ Remove(t)
        \/ Read(t)
        \/ PopulateEmpty(t)
        \/ PopulateCall(t)
        \/ PopulateLoop(t)
        \/ PopulateReturn(t)

Spec == Init /\ [][Next]_vars

----------------------------------------------------------------------------
\* The lock and the populations alone: threads that enter, remove, read and
\* populate, the provider dicts being drawn from two uuids.

LockUuids == {"a", "b"}

LockDicts ==
    [uuid : LockUuids, name : DictNames, generation : {None},
     parent_provider_uuid : LockUuids \cup {None}]

LockIterables == UNION {[1..n -> LockDicts] : n \in 1..MaxBatch}

\* populate_from_iterable up to the orphan check, as PopulateCall.
PopulateCallLock(t) ==
    /\ pc[t] = "idle"
    /\ NodeCount(roots) <= MaxPre
    /\ Acquire(t)
    /\ \E provider_dicts \in LockIterables :
          LET to_add == to_add_by_uuid(provider_dicts)
              orphan == missing_parents(roots, to_add) # {}
          IN  /\ call' = [batch |-> provider_dicts, pre |-> roots, to_add |-> to_add,
                          raised |-> IF orphan THEN "OrphanInput" ELSE None]
              /\ pc' = [pc EXCEPT ![t] = IF orphan THEN "done" ELSE "loop"]
    /\ UNCHANGED roots

NextLock ==
    \E t \in Threads :
        \/ Enter(t)
        \/ Remove(t)
        \/ Read(t)
        \/ PopulateEmpty(t)
        \/ PopulateCallLock(t)
        \/ PopulateLoop(t)
        \/ PopulateReturn(t)

SpecLock == Init /\ [][NextLock]_vars

\* A thread inside populate_from_iterable runs on: the loop and the return
\* wait for nothing.
SpecLockFair ==
    /\ SpecLock
    /\ \A t \in Threads : WF_vars(PopulateLoop(t)) /\ WF_vars(PopulateReturn(t))

----------------------------------------------------------------------------
\* Lookups alone: a forest is built with new_root and new_child, one thread
\* calling, and a key is looked up in it.  call holds the key and what
\* _find_with_lock has found, until the caller goes on.

MaxFindNodes == 4

NoFind == [key |-> None, found |-> <<>>]

InitFind ==
    /\ roots = <<>>
    /\ lock = {}
    /\ pc = [t \in Threads |-> "idle"]
    /\ call = NoFind

\* new_root, from taking the lock to giving it back.
FindNewRoot ==
    /\ call = NoFind
    /\ NodeCount(roots) < MaxFindNodes
    /\ \E name \in Names, uuid \in UUIDs :
          roots' = new_root(roots, name, uuid, None).roots
    /\ UNCHANGED <<lock, pc, call>>

\* new_child, from taking the lock to giving it back.
FindNewChild ==
    /\ call = NoFind
    /\ NodeCount(roots) < MaxFindNodes
    /\ \E name \in Names, parent \in Keys, uuid \in UUIDs :
          roots' = new_child(roots, name, parent, uuid, None).roots
    /\ UNCHANGED <<lock, pc, call>>

\* The lookup of a keyed operation.
FindWithLock ==
    /\ call = NoFind
    /\ \E key \in Keys : call' = [key |-> key, found |-> _find_with_lock(roots, key)]
    /\ UNCHANGED <<roots, lock, pc>>

FindReturned ==
    /\ call # NoFind
    /\ call' = NoFind
    /\ UNCHANGED <<roots, lock, pc>>

NextFind ==
    \/ FindNewRoot
    \/ FindNewChild
    \/ FindWithLock
    \/ FindReturned

SpecFind == InitFind /\ [][NextFind]_vars

----------------------------------------------------------------------------
\* The inventory, traits and aggregates operations, called one after the
\* other on a tree built from a compute node list.  Each action is a whole
\* public method, from taking the lock to giving it back, and leaves in call
\* what was called: the operation, its arguments, the roots before it, the
\* error it raised and the value it returned, until the caller goes on.

MaxAttrCns == 1    \* length of the compute node list of these trees

NoAttrCall ==
    [op |-> None, key |-> None, arg |-> <<>>, generation |-> None,
     pre |-> <<>>, raised |-> None, ret |-> None]

InitAttr ==
    /\ roots \in {InitRoots(cns) : cns \in {l \in ComputeNodeLists : Len(l) <= MaxAttrCns}}
    /\ lock = {}
    /\ pc = [t \in Threads |-> "idle"]
    /\ call = NoAttrCall

\* The method has run under the lock with the result r.  The caller makes a
\* call when it has taken the result of the one before (call = NoAttrCall).
Called(op, key, arg, generation, r) ==
    /\ roots' = r.roots
    /\ call' = [op |-> op, key |-> key, arg |-> arg, generation |-> generation,
                pre |-> roots, raised |-> r.raised, ret |-> r.ret]
    /\ UNCHANGED <<lock, pc>>

HasInventory ==
    /\ call = NoAttrCall
    /\ \E key \in Keys :
          Called("has_inventory", key, <<>>, None, T_has_inventory(roots, key))

HasInventoryChanged ==
    /\ call = NoAttrCall
    /\ \E key \in Keys, inventory \in Inventories :
          Called("has_inventory_changed", key, inventory, None,
                 T_has_inventory_changed(roots, key, inventory))

UpdateInventory ==
    /\ call = NoAttrCall
    /\ \E key \in Keys, inventory \in Inventories, generation \in UpdateGens :
          Called("update_inventory", key, inventory, generation,
                 update_inventory(roots, key, inventory, generation))

HasTraits ==
    /\ call = NoAttrCall
    /\ \E key \in Keys, traits \in TraitLists :
          Called("has_traits", key, traits, None, T_has_traits(roots, key, traits))

HaveTraitsChanged ==
    /\ call = NoAttrCall
    /\ \E key \in Keys, traits \in TraitLists :
          Called("have_traits_changed", key, traits, None,
                 T_have_traits_changed(roots, key, traits))

UpdateTraits ==
    /\ call = NoAttrCall
    /\ \E key \in Keys, traits \in TraitLists, generation \in UpdateGens :
          Called("update_traits", key, traits, generation,
                 update_traits(roots, key, traits, generation))

InAggregates ==
    /\ call = NoAttrCall
    /\ \E key \in Keys, aggregates \in AggregateLists :
          Called("in_aggregates", key, aggregates, None,
                 T_in_aggregates(roots, key, aggregates))

HaveAggregatesChanged ==
    /\ call = NoAttrCall
    /\ \E key \in Keys, aggregates \in AggregateLists :
          Called("have_aggregates_changed", key, aggregates, None,
                 T_have_aggregates_changed(roots, key, aggregates))

UpdateAggregates ==
    /\ call = NoAttrCall
    /\ \E key \in Keys, aggregates \in AggregateLists, generation \in UpdateGens :
          Called("update_aggregates", key, aggregates, generation,
                 update_aggregates(roots, key, aggregates, generation))

\* The caller has taken the result of its call.
Returned ==
    /\ call # NoAttrCall
    /\ call' = NoAttrCall
    /\ UNCHANGED <<roots, lock, pc>>

NextAttr ==
    \/ HasInventory
    \/ HasInventoryChanged
    \/ UpdateInventory
    \/ HasTraits
    \/ HaveTraitsChanged
    \/ UpdateTraits
    \/ InAggregates
    \/ HaveAggregatesChanged
    \/ UpdateAggregates
    \/ Returned

SpecAttr == InitAttr /\ [][NextAttr]_vars

----------------------------------------------------------------------------
\* Objects and references.  The inventory of a provider is a dict object
\* whose values are record objects (dicts themselves), its traits and its
\* aggregates are set objects; the caller hands in a dict or a list and is
\* handed out, by data, a tuple of a dict and two sets.  Here the attribute
\* fields of a provider, the argument of the caller and the fields of the
\* snapshot hold addresses, and call.heap holds the objects at the addresses:
\* heap.dicts[a] is a function from resource classes to record addresses,
\* heap.recs[a] a function from field names to values, heap.sets[a] a set
\* and heap.lists[a] a sequence.  An object no reference leads to is freed.

RefKeys == {"a", "n", "b"}
RefFields == {"total"}
RefRecords == PartialFunctions(RefFields, Values)
RefInventories == PartialFunctions(ResourceClasses, RefRecords)
RefTraitNames == {"T1"}
RefTraitLists == UNION {[1..n -> RefTraitNames] : n \in 0..MaxList}
RefAggregateLists == UNION {[1..n -> AggregateUuids] : n \in 0..MaxList}

\* The lowest address that is free in the map m.
Alloc(m) ==
    CHOOSE a \in 1..(Cardinality(DOMAIN m) + 1) :
        /\ a \notin DOMAIN m
        /\ \A b \in 1..(Cardinality(DOMAIN m) + 1) : b \notin DOMAIN m => a <= b

Put(m, a, v) == [x \in DOMAIN m \cup {a} |-> IF x = a THEN v ELSE m[x]]

Without(m, a) == [x \in DOMAIN m \ {a} |-> m[x]]

\* A new record object for each value of the dict value: [heap, map].
RECURSIVE StoreRecords(_, _, _)
StoreRecords(h, value, done) ==
    IF DOMAIN value = DOMAIN done THEN [heap |-> h, map |-> done]
    ELSE LET rc == CHOOSE k \in DOMAIN value \ DOMAIN done : TRUE
             a == Alloc(h.recs)
         IN  StoreRecords([h EXCEPT !.recs = Put(@, a, value[rc])], value, Put(done, rc, a))

\* A new dict object with new record objects, of the given value: [heap, ref].
NewDict(h, value) ==
    LET s == StoreRecords(h, value, <<>>)
        a == Alloc(s.heap.dicts)
    IN  [heap |-> [s.heap EXCEPT !.dicts = Put(@, a, s.map)], ref |-> a]

NewSet(h, value) ==
    LET a == Alloc(h.sets) IN [heap |-> [h EXCEPT !.sets = Put(@, a, value)], ref |-> a]

NewList(h, value) ==
    LET a == Alloc(h.lists) IN [heap |-> [h EXCEPT !.lists = Put(@, a, value)], ref |-> a]

\* What the dict at d holds, records and all.
DictValue(h, d) == [rc \in DOMAIN h.dicts[d] |-> h.recs[h.dicts[d][rc]]]

\* copy.copy of a dict: a new dict object with the record objects of d.
copy_dict(h, d) ==
    LET a == Alloc(h.dicts) IN [heap |-> [h EXCEPT !.dicts = Put(@, a, h.dicts[d])], ref |-> a]

\* copy.deepcopy of a dict of dicts (no record is the value of two keys).
deepcopy(h, d) == NewDict(h, DictValue(h, d))

\* copy.copy of a set.
copy_set(h, a) == NewSet(h, h.sets[a])

\* The provider p with the values of its attributes in the place of their
\* addresses.
Deref(h, p) ==
    [p EXCEPT !.inventory = DictValue(h, p.inventory),
              !.traits = h.sets[p.traits],
              !.aggregates = h.sets[p.aggregates]]

\* _Provider.data, were the inventory copied with copy.copy.
R_data_shallow(h, p) ==
    LET i == copy_dict(h, p.inventory)
        t == copy_set(i.heap, p.traits)
        a == copy_set(t.heap, p.aggregates)
    IN  [heap |-> a.heap,
         ret |-> [taken |-> TRUE, inventory |-> i.ref, traits |-> t.ref, aggregates |-> a.ref]]

\* _Provider.data: [heap, ret], ret being the references of the tuple.
R_data(h, p) ==
    LET i == deepcopy(h, p.inventory)
        t == copy_set(i.heap, p.traits)
        a == copy_set(t.heap, p.aggregates)
    IN  [heap |-> a.heap,
         ret |-> [taken |-> TRUE, inventory |-> i.ref, traits |-> t.ref, aggregates |-> a.ref]]

\* _Provider.update_inventory, were the dict of the caller stored itself.
R_update_inventory_by_reference(h, p, inventory, generation) ==
    LET q == _update_generation(p, generation) IN
    IF has_inventory_changed(Deref(h, q), DictValue(h, inventory))
    THEN [heap |-> h, ret |-> TRUE, p |-> [q EXCEPT !.inventory = inventory]]
    ELSE [heap |-> h, ret |-> FALSE, p |-> q]

\* _Provider.update_inventory: [heap, ret, p].
R_update_inventory(h, p, inventory, generation) ==
    LET q == _update_generation(p, generation) IN
    IF has_inventory_changed(Deref(h, q), DictValue(h, inventory))
    THEN LET c == deepcopy(h, inventory) IN
         [heap |-> c.heap, ret |-> TRUE, p |-> [q EXCEPT !.inventory = c.ref]]
    ELSE [heap |-> h, ret |-> FALSE, p |-> q]

\* _Provider.update_traits: self.traits = set(new), a new set.
R_update_traits(h, p, new, generation) ==
    LET q == _update_generation(p, generation) IN
    IF have_traits_changed(Deref(h, q), h.lists[new])
    THEN LET c == NewSet(h, set(h.lists[new])) IN
         [heap |-> c.heap, ret |-> TRUE, p |-> [q EXCEPT !.traits = c.ref]]
    ELSE [heap |-> h, ret |-> FALSE, p |-> q]

\* _Provider.update_aggregates: self.aggregates = set(new), a new set.
R_update_aggregates(h, p, new, generation) ==
    LET q == _update_generation(p, generation) IN
    IF have_aggregates_changed(Deref(h, q), h.lists[new])
    THEN LET c == NewSet(h, set(h.lists[new])) IN
         [heap |-> c.heap, ret |-> TRUE, p |-> [q EXCEPT !.aggregates = c.ref]]
    ELSE [heap |-> h, ret |-> FALSE, p |-> q]

\* The caller holds no argument, no snapshot.
NoArg == [kind |-> "none", ref |-> 0, stored |-> FALSE]
NoSnap == [taken |-> FALSE, inventory |-> 0, traits |-> 0, aggregates |-> 0]

\* The places that hold a reference, in a fixed order: the provider, the
\* snapshot, the argument.
DictHolders(p, arg, snap) ==
    <<p.inventory>>
    \o (IF snap.taken THEN <<snap.inventory>> ELSE <<>>)
    \o (IF arg.kind = "inventory" THEN <<arg.ref>> ELSE <<>>)

SetHolders(p, snap) ==
    <<p.traits, p.aggregates>>
    \o (IF snap.taken THEN <<snap.traits, snap.aggregates>> ELSE <<>>)

RcSeq ==
    CHOOSE f \in [1..Cardinality(ResourceClasses) -> ResourceClasses] :
        \A i, j \in DOMAIN f : i # j => f[i] # f[j]

Lowest(S) == CHOOSE n \in S : \A m \in S : n <= m

\* The objects of h that a reference of the tree or of the caller leads to,
\* an object no reference leads to being freed.  Which address an object has
\* is immaterial: each object is given the number of the first place that
\* holds it, so that the same objects held the same way are one state.
\* [heap, p, arg, snap] with the references renumbered alike.
Live(h, p, arg, snap) ==
    LET D == DictHolders(p, arg, snap)
        S == SetHolders(p, snap)
        n == Cardinality(ResourceClasses)
        dicts == {D[i] : i \in DOMAIN D}
        recs == UNION {{h.dicts[d][rc] : rc \in DOMAIN h.dicts[d]} : d \in dicts}
        sets == {S[i] : i \in DOMAIN S}
        dict == [a \in dicts |-> Lowest({i \in DOMAIN D : D[i] = a})]
        set_ == [a \in sets |-> Lowest({i \in DOMAIN S : S[i] = a})]
        rec == [a \in recs |->
                  Lowest({(ik[1] - 1) * n + ik[2] : ik \in
                            {jk \in (DOMAIN D) \X (1..n) :
                                /\ RcSeq[jk[2]] \in DOMAIN h.dicts[D[jk[1]]]
                                /\ h.dicts[D[jk[1]]][RcSeq[jk[2]]] = a}})]
    IN  [heap |->
            [dicts |-> [x \in {dict[a] : a \in dicts} |->
                          LET a == CHOOSE y \in dicts : dict[y] = x IN
                          [rc \in DOMAIN h.dicts[a] |-> rec[h.dicts[a][rc]]]],
             recs  |-> [x \in {rec[a] : a \in recs} |->
                          h.recs[CHOOSE y \in recs : rec[y] = x]],
             sets  |-> [x \in {set_[a] : a \in sets} |->
                          h.sets[CHOOSE y \in sets : set_[y] = x]],
             lists |-> IF arg.kind \in {"traits", "aggregates"}
                       THEN <<h.lists[arg.ref]>> ELSE <<>>],
         p |-> [p EXCEPT !.inventory = dict[@], !.traits = set_[@], !.aggregates = set_[@]],
         arg |-> IF arg.kind = "inventory" THEN [arg EXCEPT !.ref = dict[@]]
                 ELSE IF arg.kind = "none" THEN arg ELSE [arg EXCEPT !.ref = 1],
         snap |-> IF snap.taken
                  THEN [snap EXCEPT !.inventory = dict[@], !.traits = set_[@],
                                    !.aggregates = set_[@]]
                  ELSE snap]

\* _Provider.__init__ gives the provider a new dict and two new sets.
InitRefs ==
    /\ roots = <<[_Provider("n", "a", None, None) EXCEPT
                    !.inventory = 1, !.traits = 1, !.aggregates = 2]>>
    /\ lock = {}
    /\ pc = [t \in Threads |-> "idle"]
    /\ call = [op |-> None,
               heap |-> [dicts |-> <<EmptyDict>>, recs |-> <<>>, sets |-> <<{}, {}>>,
                         lists |-> <<>>],
               arg |-> NoArg, snap |-> NoSnap]

\* The step op has left the tree with the one provider p, the heap h and
\* the caller with arg and snap.
RefStep(op, p, h, arg, snap) ==
    \E heap \in {h}, provider \in {p}, argument \in {arg}, snapshot \in {snap} :
        \E l \in {Live(heap, provider, argument, snapshot)} :
            /\ roots' = <<l.p>>
            /\ call' = [op |-> op, heap |-> l.heap, arg |-> l.arg, snap |-> l.snap]
            /\ UNCHANGED <<lock, pc>>

\* The caller builds the inventory, the traits or the aggregates to hand in.
BuildInventory ==
    /\ call.op # "build"
    /\ \E value \in RefInventories :
          LET d == NewDict(call.heap, value) IN
          RefStep("build", roots[1], d.heap,
                  [kind |-> "inventory", ref |-> d.ref, stored |-> FALSE], call.snap)

BuildTraits ==
    /\ call.op # "build"
    /\ \E value \in RefTraitLists :
          LET l == NewList(call.heap, value) IN
          RefStep("build", roots[1], l.heap,
                  [kind |-> "traits", ref |-> l.ref, stored |-> FALSE], call.snap)

BuildAggregates ==
    /\ call.op # "build"
    /\ \E value \in RefAggregateLists :
          LET l == NewList(call.heap, value) IN
          RefStep("build", roots[1], l.heap,
                  [kind |-> "aggregates", ref |-> l.ref, stored |-> FALSE], call.snap)

\* ProviderTree.update_inventory with the dict of the caller; a key that is
\* not found raises and leaves everything as it is.
RefUpdateInventory ==
    /\ call.arg.kind = "inventory"
    /\ \E key \in RefKeys, generation \in {None} :
          LET f == _find_with_lock(roots, key) IN
          IF f = <<>> THEN RefStep("update", roots[1], call.heap, call.arg, call.snap)
          ELSE LET r == R_update_inventory(call.heap, NodeAt(roots, f[1]), call.arg.ref,
                                           generation)
               IN  RefStep("update", r.p, r.heap,
                           [call.arg EXCEPT !.stored = @ \/ r.ret], call.snap)

RefUpdateTraits ==
    /\ call.arg.kind = "traits"
    /\ \E key \in RefKeys, generation \in {None} :
          LET f == _find_with_lock(roots, key) IN
          IF f = <<>> THEN RefStep("update", roots[1], call.heap, call.arg, call.snap)
          ELSE LET r == R_update_traits(call.heap, NodeAt(roots, f[1]), call.arg.ref,
                                        generation)
               IN  RefStep("update", r.p, r.heap,
                           [call.arg EXCEPT !.stored = @ \/ r.ret], call.snap)

RefUpdateAggregates ==
    /\ call.arg.kind = "aggregates"
    /\ \E key \in RefKeys, generation \in {None} :
          LET f == _find_with_lock(roots, key) IN
          IF f = <<>> THEN RefStep("update", roots[1], call.heap, call.arg, call.snap)
          ELSE LET r == R_update_aggregates(call.heap, NodeAt(roots, f[1]), call.arg.ref,
                                            generation)
               IN  RefStep("update", r.p, r.heap,
                           [call.arg EXCEPT !.stored = @ \/ r.ret], call.snap)

\* ProviderTree.data: the caller keeps the tuple returned.
RefData ==
    /\ call.op # "data"
    /\ \E key \in RefKeys :
          LET f == _find_with_lock(roots, key) IN
          IF f = <<>> THEN RefStep("data", roots[1], call.heap, call.arg, call.snap)
          ELSE LET r == R_data(call.heap, NodeAt(roots, f[1])) IN
               RefStep("data", roots[1], r.heap, call.arg, r.ret)

\* The dict at d after the caller has set a field of one of its records, put
\* a new record under a key or deleted a key.
DictMutations(h, d) ==
    {[h EXCEPT !.recs[h.dicts[d][rc]] = Put(@, field, v)] :
        <<rc, field, v>> \in (DOMAIN h.dicts[d]) \X RefFields \X Values}
    \cup {[h EXCEPT !.recs[h.dicts[d][rc]] = Without(@, field)] :
        <<rc, field>> \in (DOMAIN h.dicts[d]) \X RefFields}
    \cup {LET a == Alloc(h.recs) IN
          [h EXCEPT !.recs = Put(@, a, rec), !.dicts[d] = Put(@, rc, a)] :
        <<rc, rec>> \in ResourceClasses \X RefRecords}
    \cup {[h EXCEPT !.dicts[d] = Without(@, rc)] : rc \in DOMAIN h.dicts[d]}

\* The set at a after an add or a discard.
SetMutations(h, a, names) ==
    {[h EXCEPT !.sets[a] = @ \cup {x}] : x \in names}
    \cup {[h EXCEPT !.sets[a] = @ \ {x}] : x \in names}

\* The list at a after an append or a pop.
ListMutations(h, a, names) ==
    {[h EXCEPT !.lists[a] = Append(@, x)] : x \in {y \in names : Len(h.lists[a]) < MaxList}}
    \cup {[h EXCEPT !.lists[a] = SubSeq(@, 1, Len(@) - 1)] : x \in {y \in names : h.lists[a] # <<>>}}

\* The caller modifies the inventory, the traits or the aggregates of the
\* tuple that data returned.
MutateSnapshot ==
    /\ call.snap.taken
    /\ \E h \in DictMutations(call.heap, call.snap.inventory)
                \cup SetMutations(call.heap, call.snap.traits, RefTraitNames)
                \cup SetMutations(call.heap, call.snap.aggregates, AggregateUuids) :
          /\ h # call.heap
          /\ RefStep("mutate_snapshot", roots[1], h, call.arg, call.snap)

\* The caller modifies the dict or the list it has handed in.
MutateArgument ==
    /\ call.arg.kind # "none"
    /\ \E h \in (IF call.arg.kind = "inventory" THEN DictMutations(call.heap, call.arg.ref)
                 ELSE IF call.arg.kind = "traits"
                      THEN ListMutations(call.heap, call.arg.ref, RefTraitNames)
                      ELSE ListMutations(call.heap, call.arg.ref, AggregateUuids)) :
          /\ h # call.heap
          /\ RefStep("mutate_argument", roots[1], h, call.arg, call.snap)

NextRefs ==
    \/ BuildInventory
    \/ BuildTraits
    \/ BuildAggregates
    \/ RefUpdateInventory
    \/ RefUpdateTraits
    \/ RefUpdateAggregates
    \/ RefData
    \/ MutateSnapshot
    \/ MutateArgument

SpecRefs == InitRefs /\ [][NextRefs]_vars

----------------------------------------------------------------------------
\* What the properties below speak of.

Idle == \A t \in Threads : pc[t] = "idle"

\* populate_from_iterable has done its work and is about to leave the with
\* block: by returning (call.raised = None) or with the error call.raised.
PopulateDone == \E t \in Threads : pc[t] = "done"
PopulateReturned == PopulateDone /\ call.raised = None

\* The providers of a forest, by path.
UuidsOf(rts) == {NodeAt(rts, p).uuid : p \in PathsOf(rts)}
PathsWithUuid(rts, uuid) == {p \in PathsOf(rts) : NodeAt(rts, p).uuid = uuid}

\* The uuids of a batch, and the descriptor that counts for a uuid: the last.
BatchUuids(batch) == {batch[i].uuid : i \in DOMAIN batch}
IsLast(batch, i) == \A j \in DOMAIN batch : j > i => batch[j].uuid # batch[i].uuid
LastOf(batch, uuid) ==
    batch[CHOOSE i \in DOMAIN batch : batch[i].uuid = uuid /\ IsLast(batch, i)]

\* The parents a batch may name without being an orphan.
AllowedParents(rts, batch) == {None} \cup UuidsOf(rts) \cup BatchUuids(batch)

NoAttributes(p) == p.inventory = EmptyDict /\ p.traits = {} /\ p.aggregates = {}

----------------------------------------------------------------------------
\* C1: at most one thread is inside a critical section, the lock is held by
\* exactly the thread inside, and no operation runs its body (reads or changes
\* the tree) while a bulk population is in progress: a population is only
\* ever seen before it starts or after it has ended.
C1_Linearizable ==
    /\ Cardinality({t \in Threads : pc[t] # "idle"}) <= 1
    /\ lock = {t \in Threads : pc[t] # "idle"}
    /\ (\E t \in Threads : pc[t] = "cs") => call = NoCall

\* A population is partly applied (the tree has changed, entries are left to
\* add) and every other thread is outside.
C1_Witness ==
    \E t \in Threads :
        /\ pc[t] = "loop"
        /\ roots # call.pre
        /\ call.to_add # <<>>
        /\ \A u \in Threads \ {t} : pc[u] = "idle"

\* C2 (as claimed): an operation that raises leaves the tree as it was before
\* the call; in particular populate_from_iterable that raises has added,
\* removed or replaced no provider.
C2_Transactional ==
    /\ (PopulateDone /\ call.raised # None) => roots = call.pre
    /\ Idle =>
         /\ \A name \in Names, uuid \in UUIDs, generation \in Gens :
              LET r == new_root(roots, name, uuid, generation) IN
              r.raised # None => r.roots = roots
         /\ \A name \in Names, parent \in Keys, uuid \in UUIDs, generation \in Gens :
              LET r == new_child(roots, name, parent, uuid, generation) IN
              r.raised # None => r.roots = roots
         /\ \A name_or_uuid \in Keys :
              LET r == _remove_with_lock(roots, name_or_uuid) IN
              r.raised # None => r.roots = roots
         /\ \A name_or_uuid \in Keys, generation \in Gens :
              LET r == update_traits(roots, name_or_uuid, <<"T1">>, generation) IN
              r.raised # None => r.roots = roots

\* C3 (as claimed): the orphan error is raised exactly when some descriptor of
\* the batch declares a parent that is neither absent, nor in the tree, nor
\* the identifier of a descriptor of the batch; the tree is then unchanged.
C3_OrphanAnyDescriptor ==
    PopulateDone =>
        /\ (call.raised = "OrphanInput") <=>
              (\E i \in DOMAIN call.batch :
                  call.batch[i].parent_provider_uuid
                      \notin AllowedParents(call.pre, call.batch))
        /\ call.raised = "OrphanInput" => roots = call.pre

\* C3 (amended): the orphan error is raised exactly when some descriptor that
\* is the last of the batch with its identifier declares a parent that is
\* neither absent, nor in the tree, nor the identifier of a descriptor of the
\* batch; the tree is then unchanged and no identifier of the batch that was
\* not in the tree is in it afterwards.
C3_OrphanLastDescriptor ==
    PopulateDone =>
        /\ (call.raised = "OrphanInput") <=>
              (\E i \in DOMAIN call.batch :
                  /\ IsLast(call.batch, i)
                  /\ call.batch[i].parent_provider_uuid
                         \notin AllowedParents(call.pre, call.batch))
        /\ call.raised = "OrphanInput" =>
              /\ roots = call.pre
              /\ UuidsOf(roots) \cap BatchUuids(call.batch) \subseteq UuidsOf(call.pre)

\* The orphan error is raised for a batch of two descriptors on a tree that
\* is not empty, one descriptor naming a parent that is in the tree and the
\* other a parent that is nowhere.
C3_Witness ==
    /\ PopulateDone
    /\ call.raised = "OrphanInput"
    /\ call.pre # <<>>
    /\ Len(call.batch) = 2
    /\ \E i \in DOMAIN call.batch :
          call.batch[i].parent_provider_uuid \in UuidsOf(call.pre)
    /\ UuidsOf(roots) \cap BatchUuids(call.batch) = {}

\* C4 (as claimed): no identifier belongs to two providers of the forest.
C4_UniqueIdentifiers ==
    Idle => \A p, q \in PathsOf(roots) :
                p # q => NodeAt(roots, p).uuid # NodeAt(roots, q).uuid

\* C5 (as claimed): every provider that is not a root has the identifier of
\* some other provider of the tree as its parent identifier.
C5_ParentResolves ==
    Idle => \A p \in PathsOf(roots) :
                Len(p) > 1 =>
                    \E q \in PathsOf(roots) \ {p} :
                        NodeAt(roots, q).uuid = NodeAt(roots, p).parent_uuid

\* C6 (as claimed): the children of a provider P are exactly the providers
\* of the forest whose parent identifier is P's identifier.
C6_ChildrenMatchParent ==
    Idle => \A p, q \in PathsOf(roots) :
                (Len(q) = Len(p) + 1 /\ SubSeq(q, 1, Len(p)) = p)
                    <=> (q # p /\ NodeAt(roots, q).parent_uuid = NodeAt(roots, p).uuid)

\* C7 (as claimed): after populate_from_iterable returns, every identifier of
\* the batch is in the tree exactly once, with the parent its last descriptor
\* declares: a root when that is absent, else a child of the provider with
\* that identifier.
C7_BatchPresent ==
    PopulateReturned =>
        \A uuid \in BatchUuids(call.batch) :
            LET pd == LastOf(call.batch, uuid) IN
            /\ Cardinality(PathsWithUuid(roots, uuid)) = 1
            /\ \A p \in PathsWithUuid(roots, uuid) :
                  /\ NodeAt(roots, p).parent_uuid = pd.parent_provider_uuid
                  /\ pd.parent_provider_uuid = None => Len(p) = 1
                  /\ pd.parent_provider_uuid # None =>
                        /\ Len(p) > 1
                        /\ NodeAt(roots, SubSeq(p, 1, Len(p) - 1)).uuid
                               = pd.parent_provider_uuid

\* The batches with the descriptors of a batch in another order.
Reorderings(batch) ==
    {[i \in DOMAIN batch |-> batch[f[i]]] :
        f \in {g \in [DOMAIN batch -> DOMAIN batch] :
                  \A i, j \in DOMAIN batch : i # j => g[i] # g[j]}}

\* What a forest holds, the order of roots and children apart: identifier,
\* parent identifier and attributes of every provider.
Content(rts) ==
    {[uuid |-> NodeAt(rts, p).uuid, parent_uuid |-> NodeAt(rts, p).parent_uuid,
      inventory |-> NodeAt(rts, p).inventory, traits |-> NodeAt(rts, p).traits,
      aggregates |-> NodeAt(rts, p).aggregates] : p \in PathsOf(rts)}

\* C8 (as claimed): for a batch whose declared parents are all absent, in the
\* tree or in the batch, the descriptors in any order are added without
\* error, with the same identifiers, parents and attributes as a result.
C8_OrderIndependent ==
    (/\ PopulateDone
     /\ \A i \in DOMAIN call.batch :
           call.batch[i].parent_provider_uuid \in AllowedParents(call.pre, call.batch))
    => /\ call.raised = None
       /\ \A other \in Reorderings(call.batch) :
             LET r == populate_from_iterable(call.pre, other) IN
             r.raised = None /\ Content(r.roots) = Content(roots)

\* C9 (as claimed): a provider that was in the tree before
\* populate_from_iterable and whose identifier is not in the batch is in the
\* tree after it returns, with its parent, generation and attributes.
C9_OthersKept ==
    PopulateReturned =>
        \A p \in PathsOf(call.pre) :
            NodeAt(call.pre, p).uuid \notin BatchUuids(call.batch) =>
                \E q \in PathsOf(roots) :
                    LET old == NodeAt(call.pre, p)
                        new == NodeAt(roots, q)
                    IN  /\ new.uuid = old.uuid
                        /\ new.parent_uuid = old.parent_uuid
                        /\ new.generation = old.generation
                        /\ new.inventory = old.inventory
                        /\ new.traits = old.traits
                        /\ new.aggregates = old.aggregates

\* C10 (as claimed): after populate_from_iterable returns, every provider
\* with an identifier of the batch has no inventory, traits or aggregates and
\* the generation of its descriptor.
C10_BatchProvidersFresh ==
    PopulateReturned =>
        \A q \in PathsOf(roots) :
            NodeAt(roots, q).uuid \in BatchUuids(call.batch) =>
                /\ NoAttributes(NodeAt(roots, q))
                /\ NodeAt(roots, q).generation
                       = LastOf(call.batch, NodeAt(roots, q).uuid).generation

\* C11 (as claimed): new_root(name, id, generation) raises the already-exists
\* error exactly when some provider of the forest has the identifier id, the
\* tree then being unchanged; otherwise (also when id is only the name of a
\* provider) the roots list gets one more root at its end, with that name,
\* identifier and generation, and id is returned.
C11_NewRootContract ==
    Idle =>
        \A name \in Names, uuid \in UUIDs, generation \in Gens :
            LET r == new_root(roots, name, uuid, generation) IN
            /\ (r.raised = "AlreadyExists") <=> (uuid \in UuidsOf(roots))
            /\ r.raised # None => r.roots = roots
            /\ r.raised = None =>
                  /\ Len(r.roots) = Len(roots) + 1
                  /\ SubSeq(r.roots, 1, Len(roots)) = roots
                  /\ r.roots[Len(r.roots)].name = name
                  /\ r.roots[Len(r.roots)].uuid = uuid
                  /\ r.roots[Len(r.roots)].generation = generation
                  /\ r.roots[Len(r.roots)].parent_uuid = None
                  /\ r.ret = uuid

\* C12 (as claimed): new_child(name, parent_key, id, generation), parent_key
\* resolving to the provider P, returns id and gives P exactly one more child,
\* which has the identifier id, P's identifier as parent identifier, no
\* attributes and the given generation; id is then among the identifiers of
\* P's subtree and every identifier that was in the forest still is.
C12_NewChildContract ==
    Idle =>
        \A name \in Names, parent \in Keys, uuid \in UUIDs, generation \in Gens :
            LET f == _find_with_lock(roots, parent)
                r == new_child(roots, name, parent, uuid, generation)
            IN  f # <<>> =>
                  LET P == NodeAt(roots, f[1])
                      Q == NodeAt(r.roots, f[1])
                  IN  /\ r.raised = None
                      /\ r.ret = uuid
                      /\ Len(Q.children) = Len(P.children) + 1
                      /\ \E i \in DOMAIN Q.children :
                            /\ Q.children[i].uuid = uuid
                            /\ Q.children[i].name = name
                            /\ Q.children[i].parent_uuid = P.uuid
                            /\ Q.children[i].generation = generation
                            /\ NoAttributes(Q.children[i])
                      /\ uuid \in P_get_provider_uuids(Q)
                      /\ UuidsOf(roots) \subseteq UuidsOf(r.roots)

\* C13 (as claimed): when remove(key) returns, the identifiers of the forest
\* are those it had before less those of the subtree of the provider that key
\* resolved to, and the providers that are left are as they were.
C13_RemoveSubtree ==
    Idle =>
        \A name_or_uuid \in Keys :
            LET r == _remove_with_lock(roots, name_or_uuid) IN
            r.raised = None =>
                /\ AllUuids(r.roots)
                     = AllUuids(roots) \ get_provider_uuids(roots, name_or_uuid).ret
                /\ Content(r.roots) \subseteq Content(roots)

\* The key is the name or the identifier of some provider of the forest.
KeyInForest(rts, key) ==
    \E p \in PathsOf(rts) : NodeAt(rts, p).name = key \/ NodeAt(rts, p).uuid = key

\* What a call did to the tree: the error it raised and the roots afterwards.
Outcome(r) == [raised |-> r.raised, roots |-> r.roots]

\* What every keyed public operation does when called with a key, over the
\* other arguments.
KeyedOutcomes(rts, key) ==
    {Outcome(data(rts, key)), Outcome(_remove_with_lock(rts, key)),
     Outcome(get_provider_uuids(rts, key)), Outcome(T_has_inventory(rts, key))}
    \cup {Outcome(new_child(rts, name, key, uuid, generation)) :
            name \in Names, uuid \in UUIDs, generation \in Gens}
    \cup {Outcome(T_has_inventory_changed(rts, key, inventory)) : inventory \in Inventories}
    \cup {Outcome(update_inventory(rts, key, inventory, generation)) :
            inventory \in Inventories, generation \in UpdateGens}
    \cup {Outcome(T_has_traits(rts, key, traits)) : traits \in TraitLists}
    \cup {Outcome(T_have_traits_changed(rts, key, traits)) : traits \in TraitLists}
    \cup {Outcome(update_traits(rts, key, traits, generation)) :
            traits \in TraitLists, generation \in UpdateGens}
    \cup {Outcome(T_in_aggregates(rts, key, aggregates)) : aggregates \in AggregateLists}
    \cup {Outcome(T_have_aggregates_changed(rts, key, aggregates)) :
            aggregates \in AggregateLists}
    \cup {Outcome(update_aggregates(rts, key, aggregates, generation)) :
            aggregates \in AggregateLists, generation \in UpdateGens}

\* C14: a keyed public operation raises the not-found error
\* exactly when its key is neither the name nor the identifier of a provider
\* of the forest, and the tree is then unchanged.
C14_NotFoundIffNoSuchKey ==
    Idle =>
        \A key \in Keys :
            \A r \in KeyedOutcomes(roots, key) :
                /\ (r.raised = "NotFound") <=> ~ KeyInForest(roots, key)
                /\ r.raised = "NotFound" => r.roots = roots

\* A provider two levels below a root is the one its identifier resolves to
\* and remove of it returns, while a key that is not in the forest makes
\* remove, new_child and update_traits raise the not-found error.
C14_Witness ==
    /\ Idle
    /\ \E p \in PathsOf(roots) :
          /\ Len(p) = 3
          /\ _find_with_lock(roots, NodeAt(roots, p).uuid) = <<p>>
          /\ _remove_with_lock(roots, NodeAt(roots, p).uuid).raised = None
    /\ \E key \in Keys :
          /\ ~ KeyInForest(roots, key)
          /\ _remove_with_lock(roots, key).raised = "NotFound"
          /\ new_child(roots, "n", key, "c", None).raised = "NotFound"
          /\ update_traits(roots, key, <<"T1">>, "1").raised = "NotFound"

\* C15: exists(k) never raises and is true exactly when k is the name or the
\* identifier of a provider at any depth of the forest; data(k) returns
\* exactly when exists(k) is true, and what it returns is the snapshot of a
\* provider with that name or identifier.
C15_ExistsIffFound ==
    Idle =>
        \A key \in Keys :
            LET e == exists(roots, key)
                d == data(roots, key)
            IN  /\ e.raised = None
                /\ e.roots = roots
                /\ e.ret = KeyInForest(roots, key)
                /\ (d.raised = None) <=> e.ret
                /\ d.raised = None => (d.ret.name = key \/ d.ret.uuid = key)

\* data returns the snapshot of a provider two levels below a root for its
\* identifier, and some key is not in the forest.
C15_Witness ==
    /\ Idle
    /\ \E p \in PathsOf(roots) :
          /\ Len(p) = 3
          /\ exists(roots, NodeAt(roots, p).uuid).ret
          /\ data(roots, NodeAt(roots, p).uuid).ret = P_data(NodeAt(roots, p))
    /\ \E key \in Keys : ~ exists(roots, key).ret /\ data(roots, key).raised = "NotFound"

----------------------------------------------------------------------------
\* The inventory, traits and aggregates operations (SpecAttr).

\* The provider a key resolves to.
Target(rts, key) == NodeAt(rts, _find_with_lock(rts, key)[1])

\* The operation op has been called and has returned.
Did(op) == call.op = op /\ call.raised = None

\* C16: has_inventory_changed(k, new) returns true exactly when the resource
\* classes of new are not those of the stored inventory, or some resource
\* class has a field that is in both the stored and the new record with
\* different values; it leaves the tree as it was.
C16_InventoryChangedIff ==
    Did("has_inventory_changed") =>
        LET cur == Target(call.pre, call.key).inventory
            new == call.arg
        IN  /\ call.ret =
                  (\/ DOMAIN cur # DOMAIN new
                   \/ \E rc \in DOMAIN cur \cap DOMAIN new :
                         \E field \in DOMAIN cur[rc] \cap DOMAIN new[rc] :
                             cur[rc][field] # new[rc][field])
            /\ roots = call.pre

\* has_inventory_changed has returned false for an inventory that is not the
\* stored one: the new record lacks a field of the stored record and has the
\* same value in a field they share.
C16_Witness ==
    /\ Did("has_inventory_changed")
    /\ call.ret = FALSE
    /\ LET cur == Target(call.pre, call.key).inventory IN
          /\ cur # call.arg
          /\ \E rc \in DOMAIN cur :
                /\ DOMAIN cur[rc] \ DOMAIN call.arg[rc] # {}
                /\ DOMAIN cur[rc] \cap DOMAIN call.arg[rc] # {}

\* C17: update_inventory(k, new, g) returns what has_inventory_changed(k, new)
\* returned right before it; when it returns true the stored inventory is
\* new, when it returns false the stored inventory is what it was; and the
\* generation of the provider is g whenever g is given.
C17_UpdateInventory ==
    Did("update_inventory") =>
        LET before == Target(call.pre, call.key)
            after == Target(roots, call.key)
        IN  /\ call.ret = T_has_inventory_changed(call.pre, call.key, call.arg).ret
            /\ call.ret => after.inventory = call.arg
            /\ ~ call.ret => after.inventory = before.inventory
            /\ call.generation # None => after.generation = call.generation

\* update_inventory has returned false for an inventory with a field the
\* stored record lacks, and has set another generation.
C17_Witness ==
    /\ Did("update_inventory")
    /\ call.ret = FALSE
    /\ LET before == Target(call.pre, call.key) IN
          /\ \E rc \in DOMAIN before.inventory :
                DOMAIN call.arg[rc] \ DOMAIN before.inventory[rc] # {}
          /\ Target(roots, call.key).inventory # call.arg
          /\ call.generation # None
          /\ call.generation # before.generation

\* C18 (as claimed): update_inventory(k, I, g) called twice in a row on a
\* provider that is there returns true the first time and false the second
\* time, and the stored inventory is then I.
C18_TwiceTrueThenFalse ==
    Did("update_inventory") =>
        LET second == update_inventory(roots, call.key, call.arg, call.generation) IN
        /\ call.ret = TRUE
        /\ second.ret = FALSE
        /\ Target(second.roots, call.key).inventory = call.arg

\* C18 (amended): update_inventory(k, I, g) called twice in a row on a
\* provider that is there returns the first time what has_inventory_changed
\* (k, I) returned before it and false the second time; the stored inventory
\* is then I if the first call returned true and what it was before the two
\* calls if not.
C18_TwiceChangedThenFalse ==
    Did("update_inventory") =>
        LET second == update_inventory(roots, call.key, call.arg, call.generation)
            stored == Target(second.roots, call.key).inventory
        IN  /\ call.ret = T_has_inventory_changed(call.pre, call.key, call.arg).ret
            /\ second.raised = None
            /\ second.ret = FALSE
            /\ call.ret => stored = call.arg
            /\ ~ call.ret => stored = Target(call.pre, call.key).inventory

\* The first of the two calls has replaced an inventory that was not empty by
\* another one and has returned true.
C18_Witness ==
    /\ Did("update_inventory")
    /\ call.ret = TRUE
    /\ Target(call.pre, call.key).inventory # EmptyDict
    /\ call.arg # EmptyDict
    /\ Target(roots, call.key).inventory = call.arg
    /\ update_inventory(roots, call.key, call.arg, call.generation).ret = FALSE

\* The three update operations.
UpdateOps == {"update_inventory", "update_traits", "update_aggregates"}

\* C19: in update_inventory, update_traits and update_aggregates a generation
\* that is given becomes the generation of the provider, whatever the
\* generation was and whether the attribute has changed or not; none given,
\* the generation stays; and the operation raises for no generation when its
\* key is in the forest.
C19_GenerationSet ==
    call.op \in UpdateOps =>
        /\ KeyInForest(call.pre, call.key) => call.raised = None
        /\ call.raised = None =>
              LET before == Target(call.pre, call.key)
                  after == Target(roots, call.key)
              IN  /\ call.generation # None => after.generation = call.generation
                  /\ call.generation = None => after.generation = before.generation

\* update_traits has returned false (the traits are as they were) and has
\* replaced the generation "2" by "1".
C19_Witness ==
    /\ Did("update_traits")
    /\ call.ret = FALSE
    /\ Target(call.pre, call.key).generation = "2"
    /\ call.generation = "1"
    /\ Target(roots, call.key).generation = "1"

\* C20: update_traits(k, new) and update_aggregates(k, new) return true
\* exactly when the elements of new are not the stored set; the stored set is
\* then the set of the elements of new, and the same call again returns false;
\* have_traits_changed and have_aggregates_changed return the same truth value
\* and leave the tree as it was.
C20_SetUpdates ==
    /\ Did("update_traits") =>
          /\ call.ret = (set(call.arg) # Target(call.pre, call.key).traits)
          /\ Target(roots, call.key).traits = set(call.arg)
          /\ update_traits(roots, call.key, call.arg, call.generation).ret = FALSE
          /\ T_have_traits_changed(call.pre, call.key, call.arg).ret = call.ret
    /\ Did("update_aggregates") =>
          /\ call.ret = (set(call.arg) # Target(call.pre, call.key).aggregates)
          /\ Target(roots, call.key).aggregates = set(call.arg)
          /\ update_aggregates(roots, call.key, call.arg, call.generation).ret = FALSE
          /\ T_have_aggregates_changed(call.pre, call.key, call.arg).ret = call.ret
    /\ Did("have_traits_changed") =>
          /\ call.ret = (set(call.arg) # Target(call.pre, call.key).traits)
          /\ roots = call.pre
    /\ Did("have_aggregates_changed") =>
          /\ call.ret = (set(call.arg) # Target(call.pre, call.key).aggregates)
          /\ roots = call.pre

\* update_traits has returned false for an iterable that repeats the one
\* trait the provider has.
C20_Witness ==
    /\ Did("update_traits")
    /\ call.ret = FALSE
    /\ Len(call.arg) > Cardinality(set(call.arg))
    /\ Target(call.pre, call.key).traits = set(call.arg)

\* C21: has_traits(k, T) is true exactly when every element of T is among the
\* stored traits of the provider k resolves to, and in_aggregates(k, A)
\* exactly when every element of A is among its stored aggregates; both are
\* true for an empty argument, also on a provider without traits or
\* aggregates; neither changes the tree.
C21_AllOfThem ==
    /\ Did("has_traits") =>
          /\ call.ret = (\A x \in set(call.arg) : x \in Target(call.pre, call.key).traits)
          /\ call.arg = <<>> => call.ret
          /\ roots = call.pre
    /\ Did("in_aggregates") =>
          /\ call.ret = (\A x \in set(call.arg) : x \in Target(call.pre, call.key).aggregates)
          /\ call.arg = <<>> => call.ret
          /\ roots = call.pre

\* has_traits has returned false for two traits of which the provider has
\* one.
C21_Witness ==
    /\ Did("has_traits")
    /\ call.ret = FALSE
    /\ set(call.arg) \cap Target(call.pre, call.key).traits # {}
    /\ set(call.arg) \ Target(call.pre, call.key).traits # {}

\* The paths of the provider at path p and of its descendants.
SubtreePaths(rts, p) ==
    {q \in PathsOf(rts) : Len(q) >= Len(p) /\ SubSeq(q, 1, Len(p)) = p}

\* C24: get_provider_uuids() is the set of the identifiers of the providers
\* reachable from the roots, the union of what the roots give for their
\* subtrees; get_provider_uuids(k) is the identifier of the provider k
\* resolves to with those of its descendants, a subset of get_provider_uuids().
C24_ProviderUuids ==
    Idle =>
        /\ AllUuids(roots) = UuidsOf(roots)
        /\ AllUuids(roots) =
              UNION {{NodeAt(roots, q).uuid : q \in SubtreePaths(roots, <<i>>)} :
                        i \in DOMAIN roots}
        /\ \A key \in Keys :
              LET f == _find_with_lock(roots, key)
                  r == get_provider_uuids(roots, key)
              IN  f # <<>> =>
                    /\ r.raised = None
                    /\ r.ret = {NodeAt(roots, q).uuid : q \in SubtreePaths(roots, f[1])}
                    /\ r.ret \subseteq AllUuids(roots)
                    /\ r.roots = roots

\* A root has a child with a child, all with different identifiers, and
\* get_provider_uuids of the child gives two of the three identifiers of the
\* forest.
C24_Witness ==
    /\ Idle
    /\ \E p \in PathsOf(roots) :
          /\ Len(p) = 2
          /\ _find_with_lock(roots, NodeAt(roots, p).uuid) = <<p>>
          /\ Cardinality(get_provider_uuids(roots, NodeAt(roots, p).uuid).ret) = 2
          /\ Cardinality(AllUuids(roots)) = 3

\* The forests one more new_root or new_child call makes of a forest: calls
\* that remove and replace no provider of it.
AfterOneAddition(rts) ==
    {new_root(rts, name, uuid, generation).roots :
        name \in Names, uuid \in UUIDs, generation \in Gens}
    \cup {new_child(rts, name, parent, uuid, generation).roots :
            name \in Names, parent \in Keys, uuid \in UUIDs \ AllUuids(rts),
            generation \in Gens}

\* C25 (as claimed): once new_root(name, id, g) has returned, and as long as
\* the new root is neither removed nor replaced, the operations that are
\* given id return and resolve id to the new root, not to another provider.
C25_NewRootResolves ==
    Idle =>
        \A name \in Names, id \in UUIDs, generation \in Gens :
            LET r == new_root(roots, name, id, generation)
                created == <<Len(r.roots)>>
            IN  r.raised = None =>
                  \A later \in {r.roots} \cup AfterOneAddition(r.roots) :
                      /\ NodeAt(later, created).uuid = id
                      /\ _find_with_lock(later, id) = <<created>>
                      /\ exists(later, id).ret
                      /\ data(later, id).ret = P_data(NodeAt(later, created))
                      /\ get_provider_uuids(later, id).ret
                            = P_get_provider_uuids(NodeAt(later, created))

\* A forest with an inventory, a trait and an aggregate given to each of its
\* providers, as update_inventory, update_traits and update_aggregates do.
RECURSIVE WithAttributes(_)
WithAttributes(seq) ==
    [i \in DOMAIN seq |->
        [seq[i] EXCEPT !.inventory = [rc \in {"VCPU"} |-> [f \in {"total"} |-> 1]],
                       !.traits = {"T1"},
                       !.aggregates = {"A"},
                       !.children = WithAttributes(seq[i].children)]]

\* A provider as it is when created: no inventory, traits, aggregates or
\* children.
IsFresh(p, name, uuid, generation, parent_uuid) ==
    /\ p.name = name
    /\ p.uuid = uuid
    /\ p.generation = generation
    /\ p.parent_uuid = parent_uuid
    /\ p.inventory = <<>>
    /\ p.traits = {}
    /\ p.aggregates = {}
    /\ p.children = <<>>

\* C26: the providers the constructor makes of a compute node list are roots
\* in the order of the list, without parent and generation; and a provider
\* created by the constructor, new_root, new_child or a pass of
\* populate_from_iterable has no inventory, traits, aggregates or children,
\* whatever the providers of the tree have and whichever provider it replaces.
C26_CreatedEmpty ==
    /\ Idle =>
          LET tree == WithAttributes(roots) IN
          /\ \A cns \in ComputeNodeLists :
                /\ Len(InitRoots(cns)) = Len(cns)
                /\ \A i \in DOMAIN cns :
                      IsFresh(InitRoots(cns)[i], cns[i].hypervisor_hostname, cns[i].uuid,
                              None, None)
          /\ \A name \in Names, uuid \in UUIDs, generation \in Gens :
                LET r == new_root(tree, name, uuid, generation) IN
                r.raised = None =>
                    IsFresh(r.roots[Len(r.roots)], name, uuid, generation, None)
          /\ \A name \in Names, parent \in Keys, uuid \in UUIDs, generation \in Gens :
                LET r == new_child(tree, name, parent, uuid, generation)
                    f == _find_with_lock(tree, parent)
                IN  r.raised = None =>
                      \E i \in DOMAIN NodeAt(r.roots, f[1]).children :
                          IsFresh(NodeAt(r.roots, f[1]).children[i], name, uuid, generation,
                                  NodeAt(tree, f[1]).uuid)
    /\ \A t \in Threads :
          pc[t] = "loop" =>
             LET r == populate_pass(WithAttributes(roots), call.to_add)
                 done == CHOOSE pd \in {call.to_add[i] : i \in DOMAIN call.to_add} :
                            pd.uuid \notin DictKeys(r.to_add)
             IN  r.raised = None =>
                   \E q \in PathsOf(r.roots) :
                       /\ IsFresh(NodeAt(r.roots, q), done.name, done.uuid, done.generation,
                                  done.parent_provider_uuid)
                       /\ done.parent_provider_uuid = None => q = <<Len(r.roots)>>

\* new_child gives a provider a child in the place of one that has a child
\* itself, and a pass of populate_from_iterable is about to replace a provider
\* that has a child.
C26_Witness ==
    \/ /\ Idle
       /\ \E p \in PathsOf(roots) :
             /\ Len(p) = 2
             /\ NodeAt(roots, p).children # <<>>
             /\ _find_with_lock(roots, NodeAt(roots, p).parent_uuid) = <<SubSeq(p, 1, 1)>>
             /\ new_child(roots, "n", NodeAt(roots, p).parent_uuid, NodeAt(roots, p).uuid,
                          None).raised = None
    \/ /\ \E t \in Threads : pc[t] = "loop"
       /\ \E p \in PathsOf(roots) :
             /\ NodeAt(roots, p).children # <<>>
             /\ NodeAt(roots, p).uuid \in DictKeys(call.to_add) \ DictKeys(populate_pass(roots, call.to_add).to_add)

\* C27: the step by which a thread leaves an operation, be it by returning or
\* by raising, leaves the lock free, so that any thread may take it next.
C27_ReleasedOnExit ==
    [][\A t \in Threads :
          (pc[t] # "idle" /\ pc'[t] = "idle") =>
              /\ lock' = {}
              /\ \A u \in Threads : pc'[u] = "idle"]_vars

\* A population is about to leave its with block by raising, holding the lock.
C27_Witness ==
    \E t \in Threads :
        /\ pc[t] = "done"
        /\ call.raised \in {"OrphanInput", "NotFound", "InternalInvariant"}
        /\ lock = {t}
        /\ ENABLED PopulateReturn(t)

\* C28: a thread inside an operation took the lock when it entered and has
\* not to take it again: its next step, which calls the helpers
\* _find_with_lock and _remove_with_lock and the node methods, can be taken
\* while it holds the lock itself.
C28_NoSelfDeadlock ==
    \A t \in Threads :
        /\ pc[t] = "cs" => lock = {t} /\ ENABLED Remove(t) /\ ENABLED Read(t)
        /\ pc[t] = "loop" => lock = {t} /\ ENABLED PopulateLoop(t)
        /\ pc[t] = "done" => lock = {t} /\ ENABLED PopulateReturn(t)

\* A population has made a pass of its loop and has another to make.
C28_Witness ==
    \E t \in Threads :
        /\ pc[t] = "loop"
        /\ lock = {t}
        /\ call.to_add # <<>>
        /\ Len(call.to_add) < Len(to_add_by_uuid(call.batch))

\* C29: a population that has passed the orphan check never ends with the
\* internal-invariant error of its loop.
C29_NoInternalInvariant ==
    PopulateDone => call.raised # "InternalInvariant"

\* C30: a population that has passed the orphan check never ends with the
\* not-found error of the parent lookup in its loop.
C30_ParentFound ==
    PopulateDone => call.raised # "NotFound"

\* What the tree holds of its providers, and what the tuple that data
\* returned holds.
TreeContent == [q \in PathsOf(roots) |-> Deref(call.heap, NodeAt(roots, q))]

SnapContent ==
    [inventory |-> DictValue(call.heap, call.snap.inventory),
     traits |-> call.heap.sets[call.snap.traits],
     aggregates |-> call.heap.sets[call.snap.aggregates]]

ArgContent ==
    IF call.arg.kind = "inventory" THEN DictValue(call.heap, call.arg.ref)
    ELSE call.heap.lists[call.arg.ref]

\* C22: a modification of the inventory (of a record of it as well), traits
\* or aggregates of a snapshot leaves the tree, and so what data returns
\* afterwards, as it is; and an update of the tree leaves a snapshot taken
\* before as it is.
C22_SnapshotIndependent ==
    [][/\ call'.op = "mutate_snapshot" =>
             /\ TreeContent' = TreeContent
             /\ \A key \in Keys :
                   _find_with_lock(roots, key) # <<>> =>
                       LET before == R_data(call.heap, NodeAt(roots, _find_with_lock(roots, key)[1]))
                           after == R_data(call.heap', NodeAt(roots', _find_with_lock(roots', key)[1]))
                       IN  DictValue(after.heap, after.ret.inventory)
                             = DictValue(before.heap, before.ret.inventory)
       /\ (call'.op = "update" /\ call.snap.taken) => SnapContent' = SnapContent]_vars

\* The caller has changed a record of the inventory of a snapshot, which now
\* differs from the record the tree holds; or the tree has been updated to
\* an inventory and traits that differ from those of a snapshot taken before.
C22_Witness ==
    /\ call.snap.taken
    /\ \/ /\ call.op = "mutate_snapshot"
          /\ \E rc \in DOMAIN SnapContent.inventory \cap DOMAIN TreeContent[<<1>>].inventory :
                SnapContent.inventory[rc] # TreeContent[<<1>>].inventory[rc]
          /\ SnapContent.traits # TreeContent[<<1>>].traits
       \/ /\ call.op = "update"
          /\ call.arg.stored
          /\ SnapContent.inventory # TreeContent[<<1>>].inventory
          /\ SnapContent.traits # TreeContent[<<1>>].traits
          /\ SnapContent.aggregates # TreeContent[<<1>>].aggregates

\* C23: a modification by the caller of the inventory (of a record of it as
\* well), the traits or the aggregates it has handed to an update leaves the
\* tree as it is.
C23_ArgumentsCopied ==
    [][call'.op = "mutate_argument" => TreeContent' = TreeContent]_vars

\* The caller has changed a record of an inventory that the tree has stored.
C23_Witness ==
    /\ call.op = "mutate_argument"
    /\ call.arg.kind = "inventory"
    /\ call.arg.stored
    /\ \E rc \in DOMAIN ArgContent \cap DOMAIN TreeContent[<<1>>].inventory :
          /\ ArgContent[rc] # TreeContent[<<1>>].inventory[rc]
          /\ TreeContent[<<1>>].inventory[rc] # <<>>

\* A provider that the key names, and a subtree that holds one.
Matches(p, key) == p.name = key \/ p.uuid = key

RECURSIVE Contains(_, _)
Contains(p, key) ==
    Matches(p, key) \/ \E i \in DOMAIN p.children : Contains(p.children[i], key)

\* p before q in depth-first order: a provider before its descendants, the
\* subtree of a child before the next child.
DepthFirstBefore(p, q) ==
    \/ Len(p) < Len(q) /\ SubSeq(q, 1, Len(p)) = p
    \/ \E i \in 1..Len(p) :
          /\ i <= Len(q)
          /\ SubSeq(p, 1, i - 1) = SubSeq(q, 1, i - 1)
          /\ p[i] < q[i]

MatchingPaths(rts, key) == {p \in PathsOf(rts) : Matches(NodeAt(rts, p), key)}

\* The provider of the subtree of p (which holds a match) that is chosen: p
\* if it matches, else a child with the key as uuid, else the one chosen in
\* the first child whose subtree holds a match.
RECURSIVE Hit(_, _)
Hit(p, key) ==
    IF Matches(p, key) THEN <<>>
    ELSE IF \E i \in DOMAIN p.children : p.children[i].uuid = key
         THEN <<CHOOSE i \in DOMAIN p.children : p.children[i].uuid = key>>
         ELSE LET i == Lowest({j \in DOMAIN p.children : Contains(p.children[j], key)})
              IN  <<i>> \o Hit(p.children[i], key)

\* C31 (as claimed): the provider a key resolves to is, of the providers
\* that match the key, the first in depth-first order of the forest, the
\* roots and the children being taken in insertion order.
C31_DepthFirst ==
    \A key \in Keys :
        LET M == MatchingPaths(roots, key) IN
        IF M = {} THEN _find_with_lock(roots, key) = <<>>
        ELSE _find_with_lock(roots, key)
               = <<CHOOSE p \in M : \A q \in M \ {p} : DepthFirstBefore(p, q)>>

\* C31 (amended): the provider a key resolves to is in the first root, in
\* insertion order, whose subtree holds a match; in that root it is the root
\* if the root matches, else a child of the root with the key as uuid, else
\* the provider found by the same rule in the first child whose subtree
\* holds a match; and data and get_provider_uuids act on that provider.
C31_FirstHit ==
    \A key \in Keys :
        LET R == {i \in DOMAIN roots : Contains(roots[i], key)} IN
        IF R = {} THEN _find_with_lock(roots, key) = <<>>
        ELSE LET path == <<Lowest(R)>> \o Hit(roots[Lowest(R)], key) IN
             /\ _find_with_lock(roots, key) = <<path>>
             /\ data(roots, key).ret = P_data(NodeAt(roots, path))
             /\ get_provider_uuids(roots, key).ret = P_get_provider_uuids(NodeAt(roots, path))

\* A key that has been looked up matches providers of two roots, and in the
\* first of them a child found by its uuid, which an earlier child precedes
\* in depth-first order.
C31_Witness ==
    /\ call # NoFind
    /\ call.found # <<>>
    /\ \E p, q \in MatchingPaths(roots, call.key) :
          /\ p[1] = call.found[1][1]
          /\ DepthFirstBefore(p, call.found[1])
          /\ q[1] > call.found[1][1]

\* C32: find on a provider gives the provider when it matches the key; else
\* the child with the key as uuid if there is one; else the first child with
\* the key as name if there is one; else a match in the subtree of a child,
\* if there is one.
C32_DirectChildrenFirst ==
    \A path \in PathsOf(roots), key \in Keys :
        LET p == NodeAt(roots, path)
            byUuid == {i \in DOMAIN p.children : p.children[i].uuid = key}
            byName == {i \in DOMAIN p.children : p.children[i].name = key}
        IN  IF Matches(p, key) THEN P_find(p, key) = << <<>> >>
            ELSE IF byUuid # {} THEN P_find(p, key) = << <<Lowest(byUuid)>> >>
            ELSE IF byName # {} THEN P_find(p, key) = << <<Lowest(byName)>> >>
            ELSE IF Contains(p, key)
                 THEN /\ P_find(p, key) # <<>>
                      /\ Len(P_find(p, key)[1]) > 1
                      /\ Matches(NodeAt(p.children, P_find(p, key)[1]), key)
                 ELSE P_find(p, key) = <<>>

\* The forest without the provider at path, its subtree going with it.
RECURSIVE WithoutPath(_, _)
WithoutPath(seq, path) ==
    IF Len(path) = 1 THEN RemoveIdx(seq, path[1])
    ELSE [seq EXCEPT ![path[1]] =
            [@ EXCEPT !.children = WithoutPath(seq[path[1]].children, Tail(path))]]

\* The providers are in the roots list exactly when they have no parent
\* identifier.
RootsAreParentless(rts) ==
    \A p \in PathsOf(rts) : Len(p) = 1 <=> NodeAt(rts, p).parent_uuid = None

\* C33: between operations a provider is in the roots list exactly when its
\* parent identifier is absent; and a remove that returns has taken the
\* provider its key resolves to out of the roots list when it has no parent,
\* and out of the children of its parent when it has one.
C33_RootsIffParentless ==
    Idle =>
        /\ RootsAreParentless(roots)
        /\ \A name_or_uuid \in Keys :
              LET r == _remove_with_lock(roots, name_or_uuid)
                  f == _find_with_lock(roots, name_or_uuid)
              IN  r.raised = None =>
                    /\ r.roots = WithoutPath(roots, f[1])
                    /\ NodeAt(roots, f[1]).parent_uuid = None <=> Len(f[1]) = 1

\* Following parent identifiers from the identifier uuid reaches, within n
\* steps and whichever provider with the identifier is taken, a provider
\* without parent.
RECURSIVE ReachesRoot(_, _, _)
ReachesRoot(rts, uuid, n) ==
    /\ n > 0
    /\ PathsWithUuid(rts, uuid) # {}
    /\ \A p \in PathsWithUuid(rts, uuid) :
          \/ NodeAt(rts, p).parent_uuid = None
          \/ ReachesRoot(rts, NodeAt(rts, p).parent_uuid, n - 1)

\* C34: between operations, following the parent identifiers from any
\* provider reaches a provider without parent, and no provider has the
\* identifier of its parent or of one of its descendants.
C34_Acyclic ==
    Idle =>
        \A p \in PathsOf(roots) :
            /\ ReachesRoot(roots, NodeAt(roots, p).uuid, NodeCount(roots))
            /\ NodeAt(roots, p).uuid # NodeAt(roots, p).parent_uuid
            /\ \A q \in SubtreePaths(roots, p) \ {p} :
                  NodeAt(roots, q).uuid # NodeAt(roots, p).uuid

\* C35: a pass of the loop of populate_from_iterable either raises or
\* leaves one entry less to add; the entries left are never more than the
\* identifiers of the batch; and a population that has entered its loop
\* comes to its end and gives the lock back.
C35_Terminates ==
    /\ [][\A t \in Threads :
             (pc[t] = "loop" /\ pc'[t] \in {"loop", "done"}) =>
                 \/ call'.raised # None /\ pc'[t] = "done"
                 \/ /\ call'.raised = None
                    /\ Len(call'.to_add) = Len(call.to_add) - 1
                    /\ pc'[t] = "done" <=> call'.to_add = <<>>]_vars
    /\ [](\A t \in Threads :
             pc[t] = "loop" =>
                 /\ call.to_add # <<>>
                 /\ Len(call.to_add) <= Cardinality(BatchUuids(call.batch)))
    /\ \A t \in Threads : (pc[t] = "loop") ~> (pc[t] = "idle" /\ lock = {})

\* A population has made as many passes as its batch has identifiers, two or
\* more, and is about to return.
C35_Witness ==
    /\ PopulateDone
    /\ call.raised = None
    /\ call.to_add = <<>>
    /\ Cardinality(BatchUuids(call.batch)) >= 2
    /\ roots # call.pre

\* The identifiers that several descriptors of the batch have.
Duplicated(batch) ==
    {batch[i].uuid : i \in {k \in DOMAIN batch : ~ IsLast(batch, k)}}

\* C36: of the descriptors of a batch with one identifier only the last
\* counts: when populate_from_iterable returns, one provider has the
\* identifier, with the name, generation and parent of the last descriptor;
\* and the orphan error is raised for the parent of a last descriptor only.
C36_LastWins ==
    PopulateDone =>
        /\ call.raised = None =>
              \A uuid \in Duplicated(call.batch) :
                  LET pd == LastOf(call.batch, uuid) IN
                  /\ Cardinality(PathsWithUuid(roots, uuid)) = 1
                  /\ \A p \in PathsWithUuid(roots, uuid) :
                        /\ NodeAt(roots, p).name = pd.name
                        /\ NodeAt(roots, p).generation = pd.generation
                        /\ NodeAt(roots, p).parent_uuid = pd.parent_provider_uuid
        /\ call.raised = "OrphanInput" =>
              \E i \in DOMAIN call.batch :
                  /\ IsLast(call.batch, i)
                  /\ call.batch[i].parent_provider_uuid
                         \notin AllowedParents(call.pre, call.batch)

\* What the nine queries give on the forest rts for a key, over their
\* other arguments: the error raised and the roots afterwards.
ReadOutcomes(rts, key) ==
    {Outcome(data(rts, key)), Outcome(exists(rts, key)),
     Outcome(get_provider_uuids(rts, key)), Outcome(T_has_inventory(rts, key))}
    \cup {Outcome(T_has_inventory_changed(rts, key, inventory)) : inventory \in Inventories}
    \cup {Outcome(T_has_traits(rts, key, traits)) : traits \in TraitLists}
    \cup {Outcome(T_have_traits_changed(rts, key, traits)) : traits \in TraitLists}
    \cup {Outcome(T_in_aggregates(rts, key, aggregates)) : aggregates \in AggregateLists}
    \cup {Outcome(T_have_aggregates_changed(rts, key, aggregates)) :
            aggregates \in AggregateLists}

\* C37: data, exists, get_provider_uuids, has_inventory,
\* has_inventory_changed, has_traits, have_traits_changed, in_aggregates and
\* have_aggregates_changed return or raise the not-found error and leave the
\* forest, with the attributes its providers have, as it is.
C37_PureReads ==
    Idle =>
        LET tree == WithAttributes(roots) IN
        \A key \in Keys :
            \A o \in ReadOutcomes(tree, key) :
                /\ o.roots = tree
                /\ o.raised \in {None, "NotFound"}

\* The forest is three providers deep; a query of the traits of the deepest
\* returns true for the traits it has, and a query with another key raises.
C37_Witness ==
    /\ Idle
    /\ \E key, other \in Keys :
          LET tree == WithAttributes(roots)
              f == _find_with_lock(tree, key)
          IN  /\ f # <<>>
              /\ Len(f[1]) = 3
              /\ T_has_traits(tree, key, <<"T1">>).ret = TRUE
              /\ T_have_traits_changed(tree, key, <<"T2">>).ret = TRUE
              /\ data(tree, other).raised = "NotFound"

\* The forest after differs from the forest before in nothing but the fields
\* named of the provider at path.
OnlyChanged(before, after, path, fields) ==
    LET old == NodeAt(before, path)
        new == NodeAt(after, path)
    IN  after = ReplaceAt(before, path,
                  [old EXCEPT
                     !.generation = IF "generation" \in fields THEN new.generation ELSE @,
                     !.inventory = IF "inventory" \in fields THEN new.inventory ELSE @,
                     !.traits = IF "traits" \in fields THEN new.traits ELSE @,
                     !.aggregates = IF "aggregates" \in fields THEN new.aggregates ELSE @])

\* What an update gives is the forest with the provider the key resolves to
\* changed in the attribute named and the generation only; the forest as it
\* was when it raises.
UpdateFrame(tree, key, r, attribute) ==
    IF r.raised # None THEN r.roots = tree
    ELSE /\ PathsOf(r.roots) = PathsOf(tree)
         /\ OnlyChanged(tree, r.roots, _find_with_lock(tree, key)[1], {attribute, "generation"})

\* C38: update_inventory, update_traits and update_aggregates change, of the
\* forest with the attributes its providers have, the provider the key
\* resolves to and of it the attribute addressed and the generation only.
C38_UpdateFrame ==
    Idle =>
        LET tree == WithAttributes(roots) IN
        \A key \in Keys, generation \in UpdateGens :
            /\ \A inventory \in Inventories :
                  UpdateFrame(tree, key, update_inventory(tree, key, inventory, generation),
                              "inventory")
            /\ \A traits \in TraitLists :
                  UpdateFrame(tree, key, update_traits(tree, key, traits, generation), "traits")
            /\ \A aggregates \in AggregateLists :
                  UpdateFrame(tree, key, update_aggregates(tree, key, aggregates, generation),
                              "aggregates")

\* A key resolves to a provider that has a parent and a child, and the three
\* updates change its attribute and its generation.
C38_Witness ==
    /\ Idle
    /\ \E key \in Keys :
          LET tree == WithAttributes(roots)
              f == _find_with_lock(tree, key)
          IN  /\ f # <<>>
              /\ Len(f[1]) = 2
              /\ NodeAt(tree, f[1]).children # <<>>
              /\ update_inventory(tree, key, <<>>, "2").ret = TRUE
              /\ update_traits(tree, key, <<"T2">>, "2").ret = TRUE
              /\ update_aggregates(tree, key, <<>>, "2").ret = TRUE
              /\ NodeAt(update_aggregates(tree, key, <<>>, "2").roots, f[1]).generation
                    # NodeAt(tree, f[1]).generation

\* No other provider of the forest has the name or the identifier of the
\* provider at path as its name or its identifier.
MatchedByNoOther(rts, path) ==
    \A q \in PathsOf(rts) \ {path} :
        {NodeAt(rts, q).name, NodeAt(rts, q).uuid}
            \cap {NodeAt(rts, path).name, NodeAt(rts, path).uuid} = {}

\* Every keyed operation gives with the key k what it gives with the key l:
\* the value returned or the error raised, and the forest afterwards.
SameByEitherKey(rts, k, l) ==
    /\ data(rts, k) = data(rts, l)
    /\ exists(rts, k) = exists(rts, l)
    /\ get_provider_uuids(rts, k) = get_provider_uuids(rts, l)
    /\ _remove_with_lock(rts, k) = _remove_with_lock(rts, l)
    /\ T_has_inventory(rts, k) = T_has_inventory(rts, l)
    /\ \A name \in Names, uuid \in UUIDs, generation \in Gens :
          new_child(rts, name, k, uuid, generation) = new_child(rts, name, l, uuid, generation)
    /\ \A inventory \in Inventories :
          /\ T_has_inventory_changed(rts, k, inventory)
                = T_has_inventory_changed(rts, l, inventory)
          /\ \A generation \in UpdateGens :
                update_inventory(rts, k, inventory, generation)
                   = update_inventory(rts, l, inventory, generation)
    /\ \A traits \in TraitLists :
          /\ T_has_traits(rts, k, traits) = T_has_traits(rts, l, traits)
          /\ T_have_traits_changed(rts, k, traits) = T_have_traits_changed(rts, l, traits)
          /\ \A generation \in UpdateGens :
                update_traits(rts, k, traits, generation)
                   = update_traits(rts, l, traits, generation)
    /\ \A aggregates \in AggregateLists :
          /\ T_in_aggregates(rts, k, aggregates) = T_in_aggregates(rts, l, aggregates)
          /\ T_have_aggregates_changed(rts, k, aggregates)
                = T_have_aggregates_changed(rts, l, aggregates)
          /\ \A generation \in UpdateGens :
                update_aggregates(rts, k, aggregates, generation)
                   = update_aggregates(rts, l, aggregates, generation)

\* C39: a provider whose name and identifier no other provider has as name
\* or identifier is the provider both resolve to, and every keyed operation
\* gives the same with its name as with its identifier, at any depth.
C39_NameOrIdentifier ==
    Idle =>
        LET tree == WithAttributes(roots) IN
        \A path \in PathsOf(tree) :
            MatchedByNoOther(tree, path) =>
                /\ _find_with_lock(tree, NodeAt(tree, path).name) = <<path>>
                /\ _find_with_lock(tree, NodeAt(tree, path).uuid) = <<path>>
                /\ SameByEitherKey(tree, NodeAt(tree, path).name, NodeAt(tree, path).uuid)

\* A provider three deep, whose name is not its identifier, is matched by no
\* other provider, and data gives its snapshot for its name.
C39_Witness ==
    /\ Idle
    /\ \E p \in PathsOf(roots) :
          /\ Len(p) = 3
          /\ MatchedByNoOther(roots, p)
          /\ NodeAt(roots, p).name # NodeAt(roots, p).uuid
          /\ data(roots, NodeAt(roots, p).name).ret = P_data(NodeAt(roots, p))

====
